---- MODULE Spec2Model ----
(***************************************************************************)
(* photography_wrapped: the statistics aggregation and filtering engine.   *)
(*                                                                         *)
(* The session store (sessions and photos tables), the filter engine       *)
(* (StatisticsAnalyzer._filter_photos), the session statistics calculator  *)
(* (Session.calculate_statistics), the aggregator                          *)
(* (Analysis.add_session_stats, StatisticsAnalyzer.analyze_sessions) and   *)
(* the session resolution of /api/analyze/database_faceted.                *)
(*                                                                         *)
(* Conventions.  A Python Optional is a sequence: <<>> is None, <<v>> is   *)
(* the value v.  A float carrying hundredths is the integer 100*v          *)
(* (aperture 1.4 is 140, focal length 84.97 is 8497).  A percentage is the *)
(* exact fraction <<n, d>> (n/d, d > 0); the code's binary rounding of the *)
(* division is not modelled.  A collections.Counter is a bag.  A lens name *)
(* is the sequence of its characters, so that the regular expressions of   *)
(* Lens.classify_type are computed on it.                                  *)
(***************************************************************************)
EXTENDS Integers, Sequences, FiniteSets, Bags, TLC

(***************************************************************************)
(* Bounds of the model.                                                    *)
(***************************************************************************)
MaxSessions == 2      \* rows of the sessions table
MaxFiles == 2         \* image files of one extracted folder
MaxRaw == 2           \* RAW files counted in one RAW folder
MaxIds == 2           \* length of a session_ids argument
MaxPhotos == 3        \* length of a photo population handed to the engine
MaxKeys == 2          \* keys of one FilterSpec
MaxParts == 3         \* statistics parts merged into one Analysis
MaxCreated == 3       \* ids the sessions table hands out in one run

(***************************************************************************)
(* Python values.                                                          *)
(***************************************************************************)
None == <<>>
Some(v) == <<v>>
Val(x) == x[1]

\* bool(x) of an Optional number: None and 0 are falsy.
TruthyNum(x) == x # None /\ Val(x) # 0
\* bool(x) of an Optional string: None and "" are falsy.
TruthyStr(x) == x # None /\ Val(x) # ""
\* bool(x) of an Optional lens name (a character sequence).
TruthyName(x) == x # None /\ Val(x) # <<>>

SeqToSet(s) == {s[i] : i \in 1..Len(s)}

RECURSIVE SumSeq(_)
SumSeq(s) == IF s = <<>> THEN 0 ELSE Head(s) + SumSeq(Tail(s))

\* Sequences over S of length at most n.
SeqsUpTo(S, n) == UNION {[1..k -> S] : k \in 0..n}

\* Fractions n/d with d > 0.
FracEq(a, b) == a[1] * b[2] = b[1] * a[2]
FracLeq(a, b) == a[1] * b[2] <= b[1] * a[2]

(***************************************************************************)
(* Lens names and Lens.classify_type.                                      *)
(***************************************************************************)
Digits == {"0", "1", "2", "3", "4", "5", "6", "7", "8", "9"}
IsDigit(c) == c \in Digits
IsSpace(c) == c = " "

AllDigits(name, i, j) == i <= j /\ \A t \in i..j : IsDigit(name[t])

\* re.search(r'\d+-\d+mm', name)
ZoomPattern(name) ==
  \E j \in 2..Len(name) :
    /\ name[j] = "-"
    /\ IsDigit(name[j - 1])
    /\ \E k \in (j + 2)..(Len(name) - 1) :
         /\ AllDigits(name, j + 1, k - 1)
         /\ name[k] = "m"
         /\ name[k + 1] = "m"

\* name[i..j] matches \d+(?:\.\d+)?
NumberAt(name, i, j) ==
  \/ AllDigits(name, i, j)
  \/ \E d \in (i + 1)..(j - 1) :
       name[d] = "." /\ AllDigits(name, i, d - 1) /\ AllDigits(name, d + 1, j)

\* \s*- matches at position p
DashAhead(name, p) ==
  \E q \in p..Len(name) :
    name[q] = "-" /\ \A t \in p..(q - 1) : IsSpace(name[t])

\* re.search(r'(?<!\d)(\d+(?:\.\d+)?)mm(?!\s*-)', name)
PrimePattern(name) ==
  \E i \in 1..Len(name) :
    /\ i = 1 \/ ~IsDigit(name[i - 1])
    /\ \E e \in (i + 1)..(Len(name) - 1) :
         /\ NumberAt(name, i, e - 1)
         /\ name[e] = "m"
         /\ name[e + 1] = "m"
         /\ ~DashAhead(name, e + 2)

\* A variant that classifies by the hyphen alone.
classify_type_ByHyphen(name) ==
  IF \E i \in 1..Len(name) : name[i] = "-" THEN "zoom" ELSE "prime"

classify_type(name) ==
  IF ZoomPattern(name) THEN "zoom"
  ELSE IF PrimePattern(name) THEN "prime"
  ELSE "unknown"

Lens85 == <<"8", "5", "m", "m">>
Lens2470 == <<"2", "4", "-", "7", "0", "m", "m">>
LensTX == <<"T", "-", "X">>

(***************************************************************************)
(* PhotoMetadata rows.  time_of_day is the derived bucket of the photo     *)
(* record that the filter engine reads.                                    *)
(***************************************************************************)
Photo(id, sid, camera, lens, aperture, shutter, iso, focal, program, flash, bias, tod) ==
  [id |-> id, session_id |-> sid, camera |-> camera, lens |-> lens,
   aperture |-> aperture, shutter_speed |-> shutter, iso |-> iso,
   focal_length |-> focal, exposure_program |-> program, flash_mode |-> flash,
   exposure_bias |-> bias, time_of_day |-> tod]

(***************************************************************************)
(* Session.calculate_statistics.                                           *)
(***************************************************************************)
Inc(counter, key) == counter (+) SetToBag({key})

EmptyBreakdown ==
  [Count |-> 0, ShutterSpeed |-> EmptyBag, Aperture |-> EmptyBag, ISO |-> EmptyBag,
   ExposureProgram |-> EmptyBag, FlashMode |-> EmptyBag, FocalLength |-> EmptyBag]

\* The stats dictionary before the loop over self.photos.
InitialStats(session) ==
  [total_count |-> session.total_photos,
   hit_rate |-> session.hit_rate,
   lens_freq |-> EmptyBag, camera_freq |-> EmptyBag, shutter_speed_freq |-> EmptyBag,
   aperture_freq |-> EmptyBag, iso_freq |-> EmptyBag,
   exposure_program_freq |-> EmptyBag, flash_mode_freq |-> EmptyBag,
   focal_length_freq |-> EmptyBag, exposure_bias_freq |-> EmptyBag,
   lens_breakdowns |-> <<>>, prime_count |-> 0, zoom_count |-> 0]

\* The lens-specific breakdown of one photo with a truthy lens.
BreakdownStep(breakdown, photo) ==
  [Count |-> breakdown.Count + 1,
   ShutterSpeed |-> IF TruthyStr(photo.shutter_speed)
                    THEN Inc(breakdown.ShutterSpeed, Val(photo.shutter_speed))
                    ELSE breakdown.ShutterSpeed,
   Aperture |-> IF TruthyNum(photo.aperture)
                THEN Inc(breakdown.Aperture, Val(photo.aperture))
                ELSE breakdown.Aperture,
   ISO |-> IF TruthyNum(photo.iso)
           THEN Inc(breakdown.ISO, Val(photo.iso))
           ELSE breakdown.ISO,
   ExposureProgram |-> IF TruthyStr(photo.exposure_program)
                       THEN Inc(breakdown.ExposureProgram, Val(photo.exposure_program))
                       ELSE breakdown.ExposureProgram,
   FlashMode |-> IF TruthyStr(photo.flash_mode)
                 THEN Inc(breakdown.FlashMode, Val(photo.flash_mode))
                 ELSE breakdown.FlashMode,
   FocalLength |-> IF TruthyNum(photo.focal_length)
                   THEN Inc(breakdown.FocalLength, Val(photo.focal_length))
                   ELSE breakdown.FocalLength]

\* One iteration of  for photo in self.photos.
StatsStep(stats, photo) ==
  LET lensOk == TruthyName(photo.lens)
      bd == stats.lens_breakdowns
      old == IF Val(photo.lens) \in DOMAIN bd THEN bd[Val(photo.lens)] ELSE EmptyBreakdown
      kind == classify_type(Val(photo.lens))
  IN [stats EXCEPT
       !.lens_freq = IF lensOk THEN Inc(@, Val(photo.lens)) ELSE @,
       !.camera_freq = IF TruthyStr(photo.camera) THEN Inc(@, Val(photo.camera)) ELSE @,
       !.shutter_speed_freq = IF TruthyStr(photo.shutter_speed)
                              THEN Inc(@, Val(photo.shutter_speed)) ELSE @,
       !.aperture_freq = IF TruthyNum(photo.aperture) THEN Inc(@, Val(photo.aperture)) ELSE @,
       !.iso_freq = IF TruthyNum(photo.iso) THEN Inc(@, Val(photo.iso)) ELSE @,
       !.exposure_program_freq = IF TruthyStr(photo.exposure_program)
                                 THEN Inc(@, Val(photo.exposure_program)) ELSE @,
       !.flash_mode_freq = IF TruthyStr(photo.flash_mode)
                           THEN Inc(@, Val(photo.flash_mode)) ELSE @,
       !.focal_length_freq = IF TruthyNum(photo.focal_length)
                             THEN Inc(@, Val(photo.focal_length)) ELSE @,
       !.exposure_bias_freq = IF TruthyNum(photo.exposure_bias)
                              THEN Inc(@, Val(photo.exposure_bias)) ELSE @,
       !.lens_breakdowns = IF lensOk
                           THEN [l \in DOMAIN bd \cup {Val(photo.lens)} |->
                                   IF l = Val(photo.lens) THEN BreakdownStep(old, photo)
                                   ELSE bd[l]]
                           ELSE @,
       !.prime_count = IF lensOk /\ kind = "prime" THEN @ + 1 ELSE @,
       !.zoom_count = IF lensOk /\ kind = "zoom" THEN @ + 1 ELSE @]

RECURSIVE StatsLoop(_, _)
StatsLoop(stats, photos) ==
  IF photos = <<>> THEN stats
  ELSE StatsLoop(StatsStep(stats, Head(photos)), Tail(photos))

\* session is a Session object: its photos list, total_photos and hit_rate.
calculate_statistics(session) == StatsLoop(InitialStats(session), session.photos)

(***************************************************************************)
(* Analysis and Analysis.add_session_stats.                                *)
(***************************************************************************)
NewAnalysis ==
  [sessions |-> <<>>, total_photos |-> 0, total_raw_photos |-> 0, hit_rate |-> None,
   lens_freq |-> EmptyBag, camera_freq |-> EmptyBag, shutter_speed_freq |-> EmptyBag,
   aperture_freq |-> EmptyBag, iso_freq |-> EmptyBag,
   exposure_program_freq |-> EmptyBag, flash_mode_freq |-> EmptyBag,
   focal_length_freq |-> EmptyBag, exposure_bias_freq |-> EmptyBag,
   time_of_day_freq |-> EmptyBag,
   lens_breakdowns |-> <<>>, prime_count |-> 0, zoom_count |-> 0]

\* A variant that assigns the Count of the part instead of adding it.
MergeBreakdown_AssignsCount(mine, breakdown) ==
  [Count |-> breakdown.Count,
   ShutterSpeed |-> mine.ShutterSpeed (+) breakdown.ShutterSpeed,
   Aperture |-> mine.Aperture (+) breakdown.Aperture,
   ISO |-> mine.ISO (+) breakdown.ISO,
   ExposureProgram |-> mine.ExposureProgram (+) breakdown.ExposureProgram,
   FlashMode |-> mine.FlashMode (+) breakdown.FlashMode,
   FocalLength |-> mine.FocalLength (+) breakdown.FocalLength]

\* The body of  for lens_name, breakdown in ...items()  for one lens.
MergeBreakdown(mine, breakdown) ==
  [Count |-> mine.Count + breakdown.Count,
   ShutterSpeed |-> mine.ShutterSpeed (+) breakdown.ShutterSpeed,
   Aperture |-> mine.Aperture (+) breakdown.Aperture,
   ISO |-> mine.ISO (+) breakdown.ISO,
   ExposureProgram |-> mine.ExposureProgram (+) breakdown.ExposureProgram,
   FlashMode |-> mine.FlashMode (+) breakdown.FlashMode,
   FocalLength |-> mine.FocalLength (+) breakdown.FocalLength]

\* A variant that keeps the breakdown of a lens that is already present.
MergeLensBreakdowns_KeepsPresent(mine, theirs) ==
  [l \in DOMAIN mine \cup DOMAIN theirs |->
     IF l \in DOMAIN mine THEN mine[l]
     ELSE MergeBreakdown(EmptyBreakdown, theirs[l])]

MergeLensBreakdowns(mine, theirs) ==
  [l \in DOMAIN mine \cup DOMAIN theirs |->
     IF l \notin DOMAIN theirs THEN mine[l]
     ELSE MergeBreakdown(IF l \in DOMAIN mine THEN mine[l] ELSE EmptyBreakdown, theirs[l])]

\* A variant that assigns the camera counter of the part instead of updating.
add_session_stats_AssignsCameraFreq(analysis, session_stats) ==
  [analysis EXCEPT
     !.total_photos = @ + session_stats.total_count,
     !.lens_freq = @ (+) session_stats.lens_freq,
     !.camera_freq = session_stats.camera_freq,
     !.shutter_speed_freq = @ (+) session_stats.shutter_speed_freq,
     !.aperture_freq = @ (+) session_stats.aperture_freq,
     !.iso_freq = @ (+) session_stats.iso_freq,
     !.exposure_program_freq = @ (+) session_stats.exposure_program_freq,
     !.flash_mode_freq = @ (+) session_stats.flash_mode_freq,
     !.focal_length_freq = @ (+) session_stats.focal_length_freq,
     !.exposure_bias_freq = @ (+) session_stats.exposure_bias_freq,
     !.lens_breakdowns = MergeLensBreakdowns(@, session_stats.lens_breakdowns),
     !.prime_count = @ + session_stats.prime_count,
     !.zoom_count = @ + session_stats.zoom_count]

add_session_stats(analysis, session_stats) ==
  [analysis EXCEPT
     !.total_photos = @ + session_stats.total_count,
     !.lens_freq = @ (+) session_stats.lens_freq,
     !.camera_freq = @ (+) session_stats.camera_freq,
     !.shutter_speed_freq = @ (+) session_stats.shutter_speed_freq,
     !.aperture_freq = @ (+) session_stats.aperture_freq,
     !.iso_freq = @ (+) session_stats.iso_freq,
     !.exposure_program_freq = @ (+) session_stats.exposure_program_freq,
     !.flash_mode_freq = @ (+) session_stats.flash_mode_freq,
     !.focal_length_freq = @ (+) session_stats.focal_length_freq,
     !.exposure_bias_freq = @ (+) session_stats.exposure_bias_freq,
     !.lens_breakdowns = MergeLensBreakdowns(@, session_stats.lens_breakdowns),
     !.prime_count = @ + session_stats.prime_count,
     !.zoom_count = @ + session_stats.zoom_count]

\* Analysis.calculate_aggregated_hit_rate: (total_photos / total_raw) * 100.
calculate_aggregated_hit_rate(analysis, total_raw) ==
  IF total_raw > 0
  THEN [analysis EXCEPT !.hit_rate = Some(<<100 * analysis.total_photos, total_raw>>)]
  ELSE analysis

(***************************************************************************)
(* State: the sessions and photos tables, the request being served and its *)
(* reply, the progress_store and the positions of the handlers that write  *)
(* to it.  Outside SpecProgress every handler runs to completion before    *)
(* the next request.                                                       *)
(***************************************************************************)
VARIABLES sessions, photos, nextId, request, reply, progress_store, pc

vars == <<sessions, photos, nextId, request, reply, progress_store, pc>>

Names == {"s1"}
Categories == {"A", "B"}
Groups == {"g1"}

\* What ExifExtractor.extract_metadata_from_file yields for one file of a folder.
StorePhoto(id, sid) ==
  Photo(id, sid, Some("A7"), Some(Lens85), Some(140), Some("1/125"), Some(100),
        Some(8500), Some("Manual"), Some("Off"), None, None)

NoRequest == [op |-> "none"]
NoReply == [status |-> "none"]

SessionRow(name, category, group, total_photos, total_raw_photos, hit_rate) ==
  [name |-> name, category |-> category, group |-> group,
   total_photos |-> total_photos, total_raw_photos |-> total_raw_photos,
   hit_rate |-> hit_rate]

\* DatabaseManager.get_session_by_name
get_session_by_name(name, category, group) ==
  {id \in DOMAIN sessions :
     /\ sessions[id].name = name
     /\ sessions[id].category = Some(category)
     /\ sessions[id].group = Some(group)}

\* DatabaseManager.get_photos_by_session
get_photos_by_session(session_id) ==
  SelectSeq(photos, LAMBDA p : p.session_id = session_id)

\* The rows of one session inserted for the files whose metadata was read.
RECURSIVE InsertPhotos(_, _, _)
InsertPhotos(rows, sid, outcomes) ==
  IF outcomes = <<>> THEN rows
  ELSE InsertPhotos(
         IF Head(outcomes) = "ok"
         THEN Append(rows, StorePhoto(Len(rows) + 1, sid))
         ELSE rows,
         sid, Tail(outcomes))

CountOk(outcomes) == Len(SelectSeq(outcomes, LAMBDA o : o = "ok"))

\* Session.calculate_hit_rate(raw_count) on a session of total_photos photos.
calculate_hit_rate(total_photos, raw_count) ==
  IF raw_count # 0 /\ raw_count > 0 THEN Some(<<100 * total_photos, raw_count>>) ELSE None

RawFolders == {None} \cup {Some(n) : n \in 0..MaxRaw}

\* A variant without the early return for a folder that lists no image file.
extract_folder_CreatesEmpty(name, category, group, outcomes, raw) ==
  /\ nextId <= MaxSessions
  /\ request' = [op |-> "extract_folder", name |-> name, category |-> category,
                 group |-> group, files |-> Len(outcomes)]
  /\ IF get_session_by_name(name, category, group) # {}
     THEN /\ reply' = [status |-> "existing"]
          /\ UNCHANGED <<sessions, photos, nextId>>
     ELSE LET hasRaw == raw # None /\ Val(raw) # 0 /\ Val(raw) > 0
              total_raw_photos == IF hasRaw THEN raw ELSE None
              hit_rate == IF hasRaw THEN calculate_hit_rate(Len(outcomes), Val(raw)) ELSE None
          IN /\ sessions' = [id \in DOMAIN sessions \cup {nextId} |->
                               IF id = nextId
                               THEN SessionRow(name, Some(category), Some(group),
                                               CountOk(outcomes), total_raw_photos, hit_rate)
                               ELSE sessions[id]]
             /\ photos' = InsertPhotos(photos, nextId, outcomes)
             /\ nextId' = nextId + 1
             /\ reply' = [status |-> "created", id |-> nextId]

\* ExifExtractor.extract_folder.  outcomes: per image file, whether its metadata
\* was read and stored; raw: None when no RAW folder is found, else its file count.
extract_folder(name, category, group, outcomes, raw) ==
  /\ nextId <= MaxSessions
  /\ request' = [op |-> "extract_folder", name |-> name, category |-> category,
                 group |-> group, files |-> Len(outcomes)]
  /\ IF get_session_by_name(name, category, group) # {}
     THEN /\ reply' = [status |-> "existing"]
          /\ UNCHANGED <<sessions, photos, nextId>>
     ELSE IF outcomes = <<>>
     THEN /\ reply' = [status |-> "None"]
          /\ UNCHANGED <<sessions, photos, nextId>>
     ELSE LET hasRaw == raw # None /\ Val(raw) # 0 /\ Val(raw) > 0
              total_raw_photos == IF hasRaw THEN raw ELSE None
              hit_rate == IF hasRaw THEN calculate_hit_rate(Len(outcomes), Val(raw)) ELSE None
          IN /\ sessions' = [id \in DOMAIN sessions \cup {nextId} |->
                               IF id = nextId
                               THEN SessionRow(name, Some(category), Some(group),
                                               CountOk(outcomes), total_raw_photos, hit_rate)
                               ELSE sessions[id]]
             /\ photos' = InsertPhotos(photos, nextId, outcomes)
             /\ nextId' = nextId + 1
             /\ reply' = [status |-> "created", id |-> nextId]

\* migrate_json_file: a session row counting the listed photos, then one row
\* per photo that could be inserted.
migrate_json_file(name, category, group, outcomes) ==
  /\ nextId <= MaxSessions
  /\ outcomes # <<>>
  /\ request' = [op |-> "migrate_json_file"]
  /\ IF get_session_by_name(name, category, group) # {}
     THEN /\ reply' = [status |-> "existing"]
          /\ UNCHANGED <<sessions, photos, nextId>>
     ELSE /\ sessions' = [id \in DOMAIN sessions \cup {nextId} |->
                            IF id = nextId
                            THEN SessionRow(name, Some(category), Some(group),
                                            Len(outcomes), None, None)
                            ELSE sessions[id]]
          /\ photos' = InsertPhotos(photos, nextId, outcomes)
          /\ nextId' = nextId + 1
          /\ reply' = [status |-> "created", id |-> nextId]

\* round(x, 1) of x = n/d * 100, as tenths (no tie arises within the bounds).
RoundTenths(n, d) == <<(2 * 1000 * n + d) \div (2 * d), 10>>

RawInputs == {None} \cup {Some(r) : r \in (-1)..MaxRaw}

\* PUT /api/database/session/<id>
update_session(session_id, name, category, group, total_raw_photos) ==
  /\ request' = [op |-> "update_session", id |-> session_id]
  /\ IF session_id \notin DOMAIN sessions
     THEN /\ reply' = [status |-> "404"]
          /\ UNCHANGED <<sessions, photos, nextId>>
     ELSE LET session == sessions[session_id]
              hit_rate == IF /\ session.total_photos # 0
                             /\ TruthyNum(total_raw_photos)
                             /\ Val(total_raw_photos) > 0
                          THEN Some(RoundTenths(session.total_photos, Val(total_raw_photos)))
                          ELSE None
          IN /\ sessions' = [sessions EXCEPT ![session_id] =
                               [@ EXCEPT !.name = name, !.category = category,
                                         !.group = group,
                                         !.total_raw_photos = total_raw_photos,
                                         !.hit_rate = hit_rate]]
             /\ reply' = [status |-> "200"]
             /\ UNCHANGED <<photos, nextId>>

(***************************************************************************)
(* StatisticsAnalyzer: analyze_session, analyze_sessions, analyze_group,   *)
(* analyze_category.                                                       *)
(***************************************************************************)
\* db.get_session(id) with session.photos = db.get_photos_by_session(id)
LoadedSession(session_id) ==
  [photos |-> get_photos_by_session(session_id),
   total_photos |-> sessions[session_id].total_photos,
   hit_rate |-> sessions[session_id].hit_rate]

\* A variant of the loop body that leaves a session without a RAW count out of
\* the totals as well as out of the ratio.
AnalyzeSessionsStep_SkipsNoRaw(acc, session_id) ==
  IF session_id \notin DOMAIN sessions \/ ~TruthyNum(sessions[session_id].total_raw_photos)
  THEN acc
  ELSE [analysis |->
          [add_session_stats(acc.analysis, calculate_statistics(LoadedSession(session_id)))
             EXCEPT !.sessions = Append(@, session_id)],
        total_raw |-> acc.total_raw + Val(sessions[session_id].total_raw_photos)]

\* One iteration of  for session_id in session_ids  of analyze_sessions.
AnalyzeSessionsStep(acc, session_id) ==
  IF session_id \notin DOMAIN sessions THEN acc
  ELSE LET raw == sessions[session_id].total_raw_photos
       IN [analysis |->
             [add_session_stats(acc.analysis, calculate_statistics(LoadedSession(session_id)))
                EXCEPT !.sessions = Append(@, session_id)],
           total_raw |-> IF TruthyNum(raw) THEN acc.total_raw + Val(raw) ELSE acc.total_raw]

RECURSIVE AnalyzeSessionsLoop(_, _)
AnalyzeSessionsLoop(acc, session_ids) ==
  IF session_ids = <<>> THEN acc
  ELSE AnalyzeSessionsLoop(AnalyzeSessionsStep(acc, Head(session_ids)), Tail(session_ids))

analyze_sessions(session_ids) ==
  LET acc == AnalyzeSessionsLoop([analysis |-> NewAnalysis, total_raw |-> 0], session_ids)
      analysis == [acc.analysis EXCEPT !.total_raw_photos = acc.total_raw]
  IN IF acc.total_raw > 0
     THEN calculate_aggregated_hit_rate(analysis, acc.total_raw)
     ELSE analysis

\* analyze_session of a session that exists.
analyze_session(session_id) ==
  LET session == sessions[session_id]
      analysis == add_session_stats(NewAnalysis, calculate_statistics(LoadedSession(session_id)))
  IN [analysis EXCEPT
        !.hit_rate = session.hit_rate,
        !.total_raw_photos = IF TruthyNum(session.total_raw_photos)
                             THEN Val(session.total_raw_photos) ELSE 0]

RECURSIVE SortedIds(_)
SortedIds(S) ==
  IF S = {} THEN <<>>
  ELSE LET m == CHOOSE x \in S : \A y \in S : x <= y
       IN <<m>> \o SortedIds(S \ {m})

\* [s.id for s in db.list_sessions() if s.group == group_name]
SessionsOfGroup(group_name) ==
  SortedIds({id \in DOMAIN sessions : sessions[id].group = Some(group_name)})

\* [s.id for s in db.list_sessions(category=category_name)]
SessionsOfCategory(category_name) ==
  SortedIds({id \in DOMAIN sessions : sessions[id].category = Some(category_name)})

AnalyzeSession(session_id) ==
  /\ request' = [op |-> "analyze_session", id |-> session_id]
  /\ reply' = IF session_id \in DOMAIN sessions
              THEN [status |-> "ok", analysis |-> analyze_session(session_id)]
              ELSE [status |-> "ValueError"]
  /\ UNCHANGED <<sessions, photos, nextId>>

AnalyzeSessions(session_ids) ==
  /\ request' = [op |-> "analyze_sessions", ids |-> session_ids]
  /\ reply' = [status |-> "ok", analysis |-> analyze_sessions(session_ids)]
  /\ UNCHANGED <<sessions, photos, nextId>>

AnalyzeGroup(group_name) ==
  /\ request' = [op |-> "analyze_group", ids |-> SessionsOfGroup(group_name)]
  /\ reply' = [status |-> "ok", analysis |-> analyze_sessions(SessionsOfGroup(group_name))]
  /\ UNCHANGED <<sessions, photos, nextId>>

AnalyzeCategory(category_name) ==
  /\ request' = [op |-> "analyze_category", ids |-> SessionsOfCategory(category_name)]
  /\ reply' = [status |-> "ok",
               analysis |-> analyze_sessions(SessionsOfCategory(category_name))]
  /\ UNCHANGED <<sessions, photos, nextId>>

(***************************************************************************)
(* The store and the analyzer: Spec.                                       *)
(***************************************************************************)
Outcomes == SeqsUpTo({"ok", "fail"}, MaxFiles)

Init ==
  /\ sessions = <<>>
  /\ photos = <<>>
  /\ nextId = 1
  /\ progress_store = <<>>
  /\ pc = <<>>
  /\ request = NoRequest
  /\ reply = NoReply

ExtractFolder ==
  /\ UNCHANGED <<progress_store, pc>>
  /\ \E name \in Names, category \in Categories, group \in Groups,
        outcomes \in Outcomes, raw \in RawFolders :
       extract_folder(name, category, group, outcomes, raw)

MigrateJsonFile ==
  /\ UNCHANGED <<progress_store, pc>>
  /\ \E name \in Names, category \in Categories, group \in Groups, outcomes \in Outcomes :
       migrate_json_file(name, category, group, outcomes)

UpdateSession ==
  /\ UNCHANGED <<progress_store, pc>>
  /\ \E session_id \in 1..MaxSessions, name \in Names,
        category \in {Some(c) : c \in Categories}, group \in {Some(g) : g \in Groups},
        total_raw_photos \in RawInputs :
       update_session(session_id, name, category, group, total_raw_photos)

AnalyzeSessionRequest ==
  /\ UNCHANGED <<progress_store, pc>>
  /\ \E session_id \in 1..MaxSessions : AnalyzeSession(session_id)

AnalyzeSessionsRequest ==
  /\ UNCHANGED <<progress_store, pc>>
  /\ \E session_ids \in SeqsUpTo(1..MaxSessions, MaxIds) : AnalyzeSessions(session_ids)

AnalyzeGroupRequest ==
  /\ UNCHANGED <<progress_store, pc>>
  /\ \E group_name \in Groups : AnalyzeGroup(group_name)

AnalyzeCategoryRequest ==
  /\ UNCHANGED <<progress_store, pc>>
  /\ \E category_name \in Categories : AnalyzeCategory(category_name)

Next ==
  \/ ExtractFolder
  \/ MigrateJsonFile
  \/ UpdateSession
  \/ AnalyzeSessionRequest
  \/ AnalyzeSessionsRequest
  \/ AnalyzeGroupRequest
  \/ AnalyzeCategoryRequest

Spec == Init /\ [][Next]_vars

(***************************************************************************)
(* FilterSpec values.  A dict value is a scalar or a list; its items are   *)
(* Optionals (JSON null is None).  A numeric-like item is an int, a float  *)
(* (hundredths) or a str; a str has the kind of text it holds (the text of *)
(* an int, of a float, or some other text) and the number that identifies  *)
(* it.                                                                     *)
(***************************************************************************)
Scalar(x) == [list |-> FALSE, items |-> <<x>>]
List(xs) == [list |-> TRUE, items |-> xs]

PyInt(n) == [t |-> "int", kind |-> "int", n |-> n]
PyFloat(h) == [t |-> "float", kind |-> "float", n |-> h]
PyStr(kind, n) == [t |-> "str", kind |-> kind, n |-> n]

\* str(x): the text Python prints for an int or a float, or the str itself.
str(x) == <<x.kind, x.n>>

\* float(x) raises for a str that is no number.
FloatRaises(x) == x.kind = "text"

\* float(x) in hundredths.
float(x) == IF x.kind = "int" THEN 100 * x.n ELSE x.n

Abs(n) == IF n < 0 THEN -n ELSE n

\* _values_as_set
_values_as_set(value) ==
  IF value.list THEN SeqToSet(value.items)
  ELSE IF value.items[1] = None THEN {}
  ELSE {value.items[1]}

\* _values_as_str_set
_values_as_str_set(value) == {str(Val(v)) : v \in {w \in _values_as_set(value) : w # None}}

(***************************************************************************)
(* StatisticsAnalyzer._filter_photos, one operator per  if key in filters. *)
(***************************************************************************)
\* A variant that removes the rejected photos from the list it is iterating.
FilterCamera_RemoveWhileIterating(photos_in, filters) ==
  LET RECURSIVE Iterate(_, _)
      Iterate(list, i) ==
        IF i > Len(list) THEN list
        ELSE IF list[i].camera \in _values_as_set(filters["camera"])
        THEN Iterate(list, i + 1)
        ELSE Iterate(SubSeq(list, 1, i - 1) \o SubSeq(list, i + 1, Len(list)), i + 1)
  IN IF "camera" \in DOMAIN filters THEN Iterate(photos_in, 1) ELSE photos_in

FilterCamera(photos_in, filters) ==
  IF "camera" \in DOMAIN filters
  THEN SelectSeq(photos_in, LAMBDA p : p.camera \in _values_as_set(filters["camera"]))
  ELSE photos_in

\* A variant that tests the lens under  elif  after the camera test.
FilterLens_ElifAfterCamera(photos_in, filters) ==
  IF "lens" \in DOMAIN filters /\ "camera" \notin DOMAIN filters
  THEN SelectSeq(photos_in, LAMBDA p : p.lens \in _values_as_set(filters["lens"]))
  ELSE photos_in

FilterLens(photos_in, filters) ==
  IF "lens" \in DOMAIN filters
  THEN SelectSeq(photos_in, LAMBDA p : p.lens \in _values_as_set(filters["lens"]))
  ELSE photos_in

FilterAperture(photos_in, filters) ==
  IF "aperture" \in DOMAIN filters
  THEN SelectSeq(photos_in, LAMBDA p :
         /\ TruthyNum(p.aperture)
         /\ str(PyFloat(Val(p.aperture))) \in _values_as_str_set(filters["aperture"]))
  ELSE photos_in

FilterShutterSpeed(photos_in, filters) ==
  IF "shutter_speed" \in DOMAIN filters
  THEN SelectSeq(photos_in, LAMBDA p :
         p.shutter_speed \in _values_as_set(filters["shutter_speed"]))
  ELSE photos_in

FilterIso(photos_in, filters) ==
  IF "iso" \in DOMAIN filters
  THEN SelectSeq(photos_in, LAMBDA p :
         /\ TruthyNum(p.iso)
         /\ str(PyInt(Val(p.iso))) \in _values_as_str_set(filters["iso"]))
  ELSE photos_in

\* focal_values: the accepted values float() converts.
FocalValues(value) ==
  {float(Val(v)) : v \in {w \in _values_as_set(value) : w # None /\ ~FloatRaises(Val(w))}}

FilterFocalLength(photos_in, filters) ==
  IF "focal_length" \in DOMAIN filters /\ FocalValues(filters["focal_length"]) # {}
  THEN SelectSeq(photos_in, LAMBDA p :
         /\ TruthyNum(p.focal_length)
         /\ \E fv \in FocalValues(filters["focal_length"]) :
              Abs(Val(p.focal_length) - fv) < 10)
  ELSE photos_in

FilterTimeOfDay(photos_in, filters) ==
  IF "time_of_day" \in DOMAIN filters
  THEN SelectSeq(photos_in, LAMBDA p :
         p.time_of_day \in _values_as_set(filters["time_of_day"]))
  ELSE photos_in

\* '-' in p.lens
HasHyphen(name) == \E i \in 1..Len(name) : name[i] = "-"

FilterLensType(photos_in, filters) ==
  IF "lens_type" \in DOMAIN filters
  THEN IF filters["lens_type"] = Scalar(Some("prime"))
       THEN SelectSeq(photos_in, LAMBDA p : TruthyName(p.lens) /\ ~HasHyphen(Val(p.lens)))
       ELSE IF filters["lens_type"] = Scalar(Some("zoom"))
       THEN SelectSeq(photos_in, LAMBDA p : TruthyName(p.lens) /\ HasHyphen(Val(p.lens)))
       ELSE photos_in
  ELSE photos_in

_filter_photos(photos_in, filters) ==
  FilterLensType(
    FilterTimeOfDay(
      FilterFocalLength(
        FilterIso(
          FilterShutterSpeed(
            FilterAperture(
              FilterLens(
                FilterCamera(photos_in, filters),
                filters),
              filters),
            filters),
          filters),
        filters),
      filters),
    filters)

\* Session.add_photo
add_photo(session, photo) ==
  [session EXCEPT !.photos = Append(@, photo), !.total_photos = Len(session.photos) + 1]

\* StatisticsAnalyzer.analyze_photos_with_filters_from_photos: the Analysis
\* and the filtered photo list.
analyze_photos_with_filters_from_photos(photos_in, filters) ==
  LET filtered_photos == _filter_photos(photos_in, filters)
      temp_session == [photos |-> filtered_photos,
                       total_photos |-> Len(filtered_photos),
                       hit_rate |-> None]
  IN [analysis |-> add_session_stats(NewAnalysis, calculate_statistics(temp_session)),
      filtered_photos |-> filtered_photos]

(***************************************************************************)
(* analyze_database_faceted: the sessions of a request and the analysis of *)
(* their photos under a FilterSpec.                                        *)
(***************************************************************************)
_as_list(value) ==
  IF value.list THEN value.items
  ELSE IF value.items[1] = None THEN <<>>
  ELSE value.items

\* column IN (?, ...): a NULL column is in no list.
SqlIn(column, values) == column # None /\ column \in SeqToSet(values)

_resolve_session_ids(category_in, group_in, names, filters) ==
  LET category == IF "category" \in DOMAIN filters THEN filters["category"] ELSE category_in
      group == IF "group" \in DOMAIN filters THEN filters["group"] ELSE group_in
  IN IF names # None /\ Len(Val(names)) > 0
     THEN SortedIds({id \in DOMAIN sessions : sessions[id].name \in SeqToSet(Val(names))})
     ELSE SortedIds({id \in DOMAIN sessions :
            /\ _as_list(category) # <<>> => SqlIn(sessions[id].category, _as_list(category))
            /\ _as_list(group) # <<>> => SqlIn(sessions[id].group, _as_list(group))})

\* DatabaseManager.get_photos_by_sessions: the photo rows of the given sessions.
get_photos_by_sessions(session_ids) ==
  SelectSeq(photos, LAMBDA p : p.session_id \in SeqToSet(session_ids))

\* {k: v for k, v in filters.items() if k not in ['category', 'group']}
PhotoFilters(filters) ==
  [k \in DOMAIN filters \ {"category", "group"} |-> filters[k]]

\* session['category'] or 'Uncategorized'
CategoryKey(row) == IF TruthyStr(row.category) THEN Val(row.category) ELSE "Uncategorized"

\* session['group_name'] or 'Ungrouped'
GroupKey(row) == IF TruthyStr(row.group) THEN Val(row.group) ELSE "Ungrouped"

\* A variant without the test  photos > raw .
_hit_rate_contrib_AllowsOver(total_photos, total_raw_photos) ==
  IF total_raw_photos = None THEN None
  ELSE IF Val(total_raw_photos) <= 0 THEN None
  ELSE IF total_photos < 0 THEN None
  ELSE Some(<<total_photos, Val(total_raw_photos)>>)

\* _hit_rate_contrib: the photos and RAW photos a session adds to a hit rate.
_hit_rate_contrib(total_photos, total_raw_photos) ==
  IF total_raw_photos = None THEN None
  ELSE IF Val(total_raw_photos) <= 0 THEN None
  ELSE IF total_photos < 0 THEN None
  ELSE IF total_photos > Val(total_raw_photos) THEN None
  ELSE Some(<<total_photos, Val(total_raw_photos)>>)

\* The baseline entry of a key, accumulated over the sessions ids of the key.
BaselineEntry(ids) ==
  LET contrib(id) == _hit_rate_contrib(sessions[id].total_photos, sessions[id].total_raw_photos)
      valid == SortedIds({id \in ids : contrib(id) # None})
      raw_photos == SumSeq([i \in 1..Len(valid) |-> Val(contrib(valid[i]))[2]])
      hit_rate_photos == SumSeq([i \in 1..Len(valid) |-> Val(contrib(valid[i]))[1]])
  IN [sessions |-> Cardinality(ids),
      photos |-> SumSeq([i \in 1..Cardinality(ids) |-> sessions[SortedIds(ids)[i]].total_photos]),
      raw_photos |-> raw_photos,
      hit_rate_photos |-> hit_rate_photos,
      hit_rate |-> IF raw_photos > 0 THEN Some(<<100 * hit_rate_photos, raw_photos>>) ELSE None,
      missing_raw_sessions |->
        Cardinality({id \in ids : sessions[id].total_raw_photos = None}),
      invalid_raw_sessions |->
        Cardinality({id \in ids : sessions[id].total_raw_photos # None /\ contrib(id) = None})]

\* The category recorded for a group: that of its first session.
FirstCategoryOf(grp) ==
  CategoryKey(sessions[SortedIds({id \in DOMAIN sessions : GroupKey(sessions[id]) = grp})[1]])

_build_baseline_category_group_metadata ==
  [categories |->
     [cat \in {CategoryKey(sessions[id]) : id \in DOMAIN sessions} |->
        BaselineEntry({id \in DOMAIN sessions : CategoryKey(sessions[id]) = cat})],
   groups |->
     [grp \in {GroupKey(sessions[id]) : id \in DOMAIN sessions} |->
        ("category" :> FirstCategoryOf(grp)) @@
        BaselineEntry({id \in DOMAIN sessions : GroupKey(sessions[id]) = grp})],
   group_to_category |->
     [grp \in {GroupKey(sessions[id]) : id \in DOMAIN sessions} |-> FirstCategoryOf(grp)]]

\* sinfo.get('category') or 'Uncategorized', sinfo the session of the photo or {}.
PhotoCategory(photo) ==
  IF photo.session_id \in DOMAIN sessions
  THEN CategoryKey(sessions[photo.session_id]) ELSE "Uncategorized"

\* sinfo.get('group') or 'Ungrouped'
PhotoGroup(photo) ==
  IF photo.session_id \in DOMAIN sessions
  THEN GroupKey(sessions[photo.session_id]) ELSE "Ungrouped"

\* A variant that starts from empty rollups instead of the baseline keys.
_overlay_filtered_category_group_counts_FromEmpty(base_categories, base_groups, filtered_photos) ==
  LET ofCat(k) == SelectSeq(filtered_photos, LAMBDA p : PhotoCategory(p) = k)
      ofGrp(k) == SelectSeq(filtered_photos, LAMBDA p : PhotoGroup(p) = k)
      owners(list) == {list[i].session_id : i \in 1..Len(list)}
  IN [categories |->
        [k \in {PhotoCategory(filtered_photos[i]) : i \in 1..Len(filtered_photos)} |->
           [sessions |-> Cardinality(owners(ofCat(k))), photos |-> Len(ofCat(k)),
            raw_photos |-> 0, hit_rate |-> None]],
      groups |->
        [k \in {PhotoGroup(filtered_photos[i]) : i \in 1..Len(filtered_photos)} |->
           [sessions |-> Cardinality(owners(ofGrp(k))), photos |-> Len(ofGrp(k)),
            category |-> PhotoCategory(ofGrp(k)[1]),
            raw_photos |-> 0, hit_rate |-> None]]]

\* A variant that counts a session once per photo instead of once.
_overlay_filtered_category_group_counts_PerPhoto(base_categories, base_groups, filtered_photos) ==
  LET ofCat(k) == SelectSeq(filtered_photos, LAMBDA p : PhotoCategory(p) = k)
      ofGrp(k) == SelectSeq(filtered_photos, LAMBDA p : PhotoGroup(p) = k)
  IN [categories |->
        [k \in DOMAIN base_categories \cup
               {PhotoCategory(filtered_photos[i]) : i \in 1..Len(filtered_photos)} |->
           IF k \in DOMAIN base_categories
           THEN [base_categories[k] EXCEPT !.sessions = Len(ofCat(k)),
                                           !.photos = Len(ofCat(k))]
           ELSE [sessions |-> Len(ofCat(k)), photos |-> Len(ofCat(k)),
                 raw_photos |-> 0, hit_rate |-> None]],
      groups |->
        [k \in DOMAIN base_groups \cup
               {PhotoGroup(filtered_photos[i]) : i \in 1..Len(filtered_photos)} |->
           IF k \in DOMAIN base_groups
           THEN [base_groups[k] EXCEPT !.sessions = Len(ofGrp(k)),
                                       !.photos = Len(ofGrp(k))]
           ELSE [sessions |-> Len(ofGrp(k)), photos |-> Len(ofGrp(k)),
                 category |-> PhotoCategory(ofGrp(k)[1]),
                 raw_photos |-> 0, hit_rate |-> None]]]

_overlay_filtered_category_group_counts(base_categories, base_groups, filtered_photos) ==
  LET ofCat(k) == SelectSeq(filtered_photos, LAMBDA p : PhotoCategory(p) = k)
      ofGrp(k) == SelectSeq(filtered_photos, LAMBDA p : PhotoGroup(p) = k)
      owners(list) == {list[i].session_id : i \in 1..Len(list)}
  IN [categories |->
        [k \in DOMAIN base_categories \cup
               {PhotoCategory(filtered_photos[i]) : i \in 1..Len(filtered_photos)} |->
           IF k \in DOMAIN base_categories
           THEN [base_categories[k] EXCEPT !.sessions = Cardinality(owners(ofCat(k))),
                                           !.photos = Len(ofCat(k))]
           ELSE [sessions |-> Cardinality(owners(ofCat(k))), photos |-> Len(ofCat(k)),
                 raw_photos |-> 0, hit_rate |-> None]],
      groups |->
        [k \in DOMAIN base_groups \cup
               {PhotoGroup(filtered_photos[i]) : i \in 1..Len(filtered_photos)} |->
           IF k \in DOMAIN base_groups
           THEN [base_groups[k] EXCEPT !.sessions = Cardinality(owners(ofGrp(k))),
                                       !.photos = Len(ofGrp(k))]
           ELSE [sessions |-> Cardinality(owners(ofGrp(k))), photos |-> Len(ofGrp(k)),
                 category |-> PhotoCategory(ofGrp(k)[1]),
                 raw_photos |-> 0, hit_rate |-> None]]]

\* _run_analysis(filters_for_scope) for the category, group and sessions of req.
_run_analysis(req, filters_for_scope) ==
  LET session_ids ==
        _resolve_session_ids(req.category, req.group, req.sessions, filters_for_scope)
      result == analyze_photos_with_filters_from_photos(
                  get_photos_by_sessions(session_ids), PhotoFilters(filters_for_scope))
      base == _build_baseline_category_group_metadata
      overlay == _overlay_filtered_category_group_counts(
                   base.categories, base.groups, result.filtered_photos)
  IN IF session_ids = <<>>
     THEN [status |-> "ValueError"]
     ELSE [status |-> "ok",
           analysis |-> result.analysis,
           filtered_photos |-> result.filtered_photos,
           categories |-> overlay.categories,
           groups |-> overlay.groups,
           group_to_category |-> base.group_to_category,
           active_filters |-> filters_for_scope]

facet_keys ==
  {"category", "group", "camera", "lens", "aperture", "shutter_speed", "iso",
   "focal_length", "time_of_day"}

\* A variant that leaves the key of the facet in its filters.
FacetFilters_KeepsKey(filters, facet_key) == filters

\* facet_filters = dict(filters); facet_filters.pop(facet_key, None)
FacetFilters(filters, facet_key) ==
  [k \in DOMAIN filters \ {facet_key} |-> filters[k]]

\* analyze_database_faceted: the main analysis and one analysis per facet;
\* an exception in any of them is answered with an error.
analyze_database_faceted(req) ==
  LET main_analysis == _run_analysis(req, req.filters)
      \* a facet whose key is not in filters runs on the filters of the main analysis
      facets == IF DOMAIN req.filters = {} THEN <<>>
                ELSE [d \in facet_keys |->
                        IF d \in DOMAIN req.filters
                        THEN _run_analysis(req, FacetFilters(req.filters, d))
                        ELSE main_analysis]
  IN IF main_analysis.status # "ok" \/ \E d \in DOMAIN facets : facets[d].status # "ok"
     THEN [status |-> "error", op |-> "run_analysis"]
     ELSE [status |-> "ok", op |-> "run_analysis",
           analysis |-> main_analysis.analysis,
           filtered_photos |-> main_analysis.filtered_photos,
           main |-> main_analysis,
           facets |-> facets]

(***************************************************************************)
(* SpecFilter: a store of photos, a FilterSpec, and the filter engine      *)
(* applied to them.                                                        *)
(***************************************************************************)
PhotoPool ==
  {Photo(1, 1, Some("A7"), Some(Lens85), Some(140), Some("1/125"), Some(100),
         Some(8500), Some("Manual"), Some("Off"), Some(0), Some("Morning")),
   Photo(2, 1, Some("R5"), Some(Lens2470), Some(280), Some("1/250"), Some(400),
         Some(8497), Some("Manual"), Some("Off"), None, Some("Evening")),
   Photo(3, 2, None, None, None, None, None, None, None, None, None, None),
   Photo(4, 2, Some("A7"), Some(Lens85), Some(140), Some("1/125"), Some(400),
         Some(8520), Some("Auto"), Some("On"), None, Some("Morning")),
   Photo(5, 2, Some(""), Some(LensTX), Some(0), Some(""), Some(0),
         Some(0), Some(""), Some(""), None, None)}

\* The photo tables: rows with distinct ids.
PhotoTables ==
  {t \in SeqsUpTo(PhotoPool, MaxPhotos) :
     \A i, j \in 1..Len(t) : t[i].id = t[j].id => i = j}

\* The sessions owning the rows of a photo table.
StoreOf(table) ==
  [id \in 1..2 |->
     SessionRow(IF id = 1 THEN "s1" ELSE "s2",
                Some(IF id = 1 THEN "A" ELSE "B"), Some("g1"),
                Len(SelectSeq(table, LAMBDA p : p.session_id = id)), None, None)]

\* The values a client sends for one key of a FilterSpec.
FilterValues(key) ==
  CASE key = "camera" ->
         {Scalar(Some("A7")), List(<<Some("A7"), Some("R5")>>), List(<<>>)}
    [] key = "lens" ->
         {Scalar(Some(Lens85)), List(<<Some(Lens85), Some(Lens2470)>>)}
    [] key = "aperture" ->
         {Scalar(Some(PyFloat(140))),
          List(<<Some(PyStr("float", 140)), Some(PyInt(2))>>)}
    [] key = "shutter_speed" ->
         {Scalar(Some("1/125")), List(<<Some("1/125"), Some("1/250")>>)}
    [] key = "iso" ->
         {Scalar(Some(PyInt(100))), List(<<Some(PyInt(100)), Some(PyStr("int", 400))>>)}
    [] key = "focal_length" ->
         {Scalar(Some(PyInt(85))), List(<<Some(PyFloat(8497)), Some(PyStr("int", 0))>>),
          List(<<>>), Scalar(Some(PyStr("text", 0)))}
    [] key = "time_of_day" ->
         {Scalar(Some("Morning")), List(<<Some("Morning"), Some("Evening")>>)}
    [] key = "lens_type" ->
         {Scalar(Some("prime")), Scalar(Some("zoom"))}
    [] key = "category" ->
         {Scalar(Some("A")), List(<<Some("A"), Some("B")>>)}
    [] key = "group" ->
         {Scalar(Some("g1"))}

FilterKeys ==
  {"camera", "lens", "aperture", "shutter_speed", "iso", "focal_length",
   "time_of_day", "lens_type", "category", "group"}

\* The FilterSpecs on the keys of K.
RECURSIVE FilterSpecsOn(_)
FilterSpecsOn(K) ==
  IF K = {} THEN {<<>>}
  ELSE LET k == CHOOSE x \in K : TRUE
       IN {(k :> v) @@ f : v \in FilterValues(k), f \in FilterSpecsOn(K \ {k})}

FilterSpecs ==
  UNION {FilterSpecsOn(K) : K \in {L \in SUBSET FilterKeys : Cardinality(L) <= MaxKeys}}

\* The part of a FilterSpec on the keys of K.
Restrict(filters, K) == [k \in DOMAIN filters \cap K |-> filters[k]]

\* The category, group and sessions of a request.
Scopes ==
  {[category |-> Scalar(None), group |-> Scalar(None), sessions |-> None],
   [category |-> Scalar(Some("A")), group |-> Scalar(None), sessions |-> None],
   [category |-> Scalar(None), group |-> Scalar(None), sessions |-> Some(<<"s1", "s2">>)]}

InitFilter ==
  /\ photos \in PhotoTables
  /\ sessions = StoreOf(photos)
  /\ nextId = 3
  /\ progress_store = <<>>
  /\ pc = <<>>
  /\ request \in {[op |-> "submitted", filters |-> f] : f \in FilterSpecs}
  /\ reply = NoReply

\* analyze_with_filters: the photos of the sessions, filtered.
FilterPhotos ==
  /\ UNCHANGED <<progress_store, pc>>
  /\ request' = [op |-> "_filter_photos", filters |-> request.filters]
  /\ reply' = [status |-> "ok", op |-> "filter",
               out |-> _filter_photos(photos, request.filters)]
  /\ UNCHANGED <<sessions, photos, nextId>>

\* The same FilterSpec applied to what it returned.
FilterAgain ==
  /\ UNCHANGED <<progress_store, pc>>
  /\ reply.status = "ok" /\ reply.op = "filter"
  /\ request' = [op |-> "_filter_photos", filters |-> request.filters]
  /\ reply' = [status |-> "ok", op |-> "again", out |-> reply.out,
               again |-> _filter_photos(reply.out, request.filters)]
  /\ UNCHANGED <<sessions, photos, nextId>>

\* The FilterSpec split into its part on the keys of K and the rest, applied
\* united and one after the other in both orders.
FilterSplit(K) ==
  LET a == Restrict(request.filters, K)
      b == Restrict(request.filters, DOMAIN request.filters \ K)
  IN /\ request' = [op |-> "_filter_photos", filters |-> request.filters]
     /\ reply' = [status |-> "ok", op |-> "split", keys |-> K,
                  united |-> _filter_photos(photos, request.filters),
                  ab |-> _filter_photos(_filter_photos(photos, a), b),
                  ba |-> _filter_photos(_filter_photos(photos, b), a)]
     /\ UNCHANGED <<sessions, photos, nextId>>

FilterSplitRequest ==
  /\ UNCHANGED <<progress_store, pc>>
  /\ \E K \in SUBSET DOMAIN request.filters : FilterSplit(K)

NextFilter ==
  \/ FilterPhotos
  \/ FilterAgain
  \/ FilterSplitRequest

SpecFilter == InitFilter /\ [][NextFilter]_vars

(***************************************************************************)
(* SpecFacets: a store of photos and a request to the faceted analysis.    *)
(***************************************************************************)
InitFacets ==
  /\ photos \in PhotoTables
  /\ sessions = StoreOf(photos)
  /\ nextId = 3
  /\ progress_store = <<>>
  /\ pc = <<>>
  /\ request \in {[op |-> "submitted", filters |-> f, category |-> scope.category,
                   group |-> scope.group, sessions |-> scope.sessions] :
                    f \in FilterSpecs, scope \in Scopes}
  /\ reply = NoReply

\* POST /api/analyze/database_faceted.
RunAnalysis ==
  /\ UNCHANGED <<progress_store, pc>>
  /\ reply = NoReply
  /\ request' = [request EXCEPT !.op = "analyze_database_faceted"]
  /\ reply' = analyze_database_faceted(request)
  /\ UNCHANGED <<sessions, photos, nextId>>

NextFacets == RunAnalysis

SpecFacets == InitFacets /\ [][NextFacets]_vars

(***************************************************************************)
(* SpecRollup: the faceted handler on stores whose sessions have null,     *)
(* empty and shared categories and groups and RAW counts of every kind.    *)
(***************************************************************************)
\* The rows of the sessions table for a photo table: total_photos counts the
\* photo rows; category, group and total_raw_photos are as a PUT leaves them.
RollupStores(table) ==
  {[id \in 1..2 |->
      LET total == Len(SelectSeq(table, LAMBDA p : p.session_id = id))
          raw == IF id = 1 THEN raw1 ELSE raw2
      IN SessionRow(IF id = 1 THEN "s1" ELSE "s2",
                    IF id = 1 THEN Some("A") ELSE category2,
                    IF id = 1 THEN Some("g1") ELSE group2,
                    total, raw,
                    IF TruthyNum(raw) /\ Val(raw) > 0
                    THEN calculate_hit_rate(total, Val(raw)) ELSE None)] :
     raw1 \in {None, Some(0), Some(1), Some(MaxPhotos)},
     raw2 \in {None, Some(MaxPhotos)},
     category2 \in {None, Some(""), Some("A"), Some("B")},
     group2 \in {None, Some(""), Some("g1"), Some("g2")}}

RollupFilterSpecs ==
  {<<>>, "camera" :> Scalar(Some("A7")), "category" :> Scalar(Some("A"))}

InitRollup ==
  /\ photos \in PhotoTables
  /\ sessions \in RollupStores(photos)
  /\ nextId = 3
  /\ progress_store = <<>>
  /\ pc = <<>>
  /\ request \in {[op |-> "submitted", filters |-> f, category |-> Scalar(None),
                   group |-> Scalar(None), sessions |-> None] : f \in RollupFilterSpecs}
  /\ reply = NoReply

NextRollup == RunAnalysis

SpecRollup == InitRollup /\ [][NextRollup]_vars

(***************************************************************************)
(* SpecStats: a photo population, split into parts whose statistics are    *)
(* added to an empty Analysis.                                             *)
(***************************************************************************)
\* Session(name=...) followed by add_photo for each photo of a part.
RECURSIVE SessionOf(_)
SessionOf(part) ==
  IF part = <<>> THEN [photos |-> <<>>, total_photos |-> 0, hit_rate |-> None]
  ELSE add_photo(SessionOf(SubSeq(part, 1, Len(part) - 1)), part[Len(part)])

\* analysis.add_session_stats(part) for each part of a list, in its order.
RECURSIVE AddAll(_, _)
AddAll(analysis, parts) ==
  IF parts = <<>> THEN analysis
  ELSE AddAll(add_session_stats(analysis, Head(parts)), Tail(parts))

\* The photos a function from their positions to part numbers puts in part g.
PartOf(table, assignment, g) ==
  LET RECURSIVE Pick(_)
      Pick(i) == IF i > Len(table) THEN <<>>
                 ELSE (IF assignment[i] = g THEN <<table[i]>> ELSE <<>>) \o Pick(i + 1)
  IN Pick(1)

Orders == {o \in [1..MaxParts -> 1..MaxParts] : \A i, j \in 1..MaxParts : o[i] = o[j] => i = j}

\* The partitions of a photo table into MaxParts parts, some possibly empty.
Partitions(table) ==
  {[g \in 1..MaxParts |-> PartOf(table, assignment, g)] :
     assignment \in [1..Len(table) -> 1..MaxParts]}

InitStats ==
  /\ photos \in PhotoTables
  /\ sessions = <<>>
  /\ nextId = 1
  /\ progress_store = <<>>
  /\ pc = <<>>
  /\ request \in {[op |-> "submitted", groups |-> groups, order |-> order] :
                    groups \in Partitions(photos), order \in Orders}
  /\ reply = NoReply

\* The statistics of the parts added one by one in the given order, and the
\* statistics of the first two parts taken together added before the rest.
Aggregate(groups, order) ==
  LET stats == [g \in 1..MaxParts |-> calculate_statistics(SessionOf(groups[g]))]
      united == calculate_statistics(SessionOf(groups[1] \o groups[2]))
  IN /\ request' = [op |-> "aggregate", groups |-> groups, order |-> order]
     /\ reply' = [status |-> "ok", op |-> "aggregate",
                  parts |-> [i \in 1..MaxParts |-> stats[order[i]]],
                  separate |-> AddAll(NewAnalysis, [i \in 1..MaxParts |-> stats[order[i]]]),
                  merged |-> AddAll(NewAnalysis,
                                    <<united>> \o [i \in 1..(MaxParts - 2) |-> stats[i + 2]])]
     /\ UNCHANGED <<sessions, photos, nextId>>

AggregateRequest ==
  /\ UNCHANGED <<progress_store, pc>>
  /\ Aggregate(request.groups, request.order)

NextStats == AggregateRequest

SpecStats == InitStats /\ [][NextStats]_vars

(***************************************************************************)
(* SpecDatabase: requests to /api/analyze/database on a store whose first  *)
(* session has a RAW count.  The reply holds the statistics of the         *)
(* Analysis; the categories and groups metadata is left out.               *)
(***************************************************************************)
\* bool(value) of the category or group of a request.
TruthyValue(value) == IF value.list THEN value.items # <<>> ELSE TruthyStr(value.items[1])

\* StatisticsAnalyzer.analyze_with_filters
analyze_with_filters(session_ids, filters) ==
  IF session_ids = <<>> THEN [status |-> "ValueError"]
  ELSE [status |-> "ok",
        analysis |-> analyze_photos_with_filters_from_photos(
                       get_photos_by_sessions(session_ids), filters).analysis]

\* analyze_database.  A list bound to  category = ?  raises in sqlite3, and the
\* unfiltered category and group branches leave analysis_dict unbound: both
\* end in the handler's  except Exception  (500).
analyze_database(req) ==
  LET category == IF "category" \in DOMAIN req.filters
                  THEN req.filters["category"] ELSE req.category
      group == IF "group" \in DOMAIN req.filters THEN req.filters["group"] ELSE req.group
      named == req.sessions # None /\ Len(Val(req.sessions)) > 0
      by_category == TruthyValue(category)
      by_group == TruthyValue(group)
      binds_list == ~named /\ ((by_category /\ category.list) \/ (by_group /\ group.list))
      session_ids ==
        IF named
        THEN SortedIds({id \in DOMAIN sessions : sessions[id].name \in SeqToSet(Val(req.sessions))})
        ELSE SortedIds({id \in DOMAIN sessions :
               /\ by_category => sessions[id].category = category.items[1]
               /\ by_group => sessions[id].group = group.items[1]})
      photo_filters == PhotoFilters(req.filters)
  IN IF binds_list THEN [status |-> "error"]
     ELSE IF session_ids = <<>> THEN [status |-> "not_found"]
     ELSE IF DOMAIN photo_filters # {}
     THEN [status |-> "ok", filtered |-> TRUE,
           analysis |-> analyze_with_filters(session_ids, photo_filters).analysis]
     ELSE IF named
     THEN [status |-> "ok", filtered |-> FALSE, analysis |-> analyze_sessions(session_ids)]
     ELSE IF by_category \/ by_group THEN [status |-> "error"]
     ELSE [status |-> "ok", filtered |-> FALSE, analysis |-> analyze_sessions(session_ids)]

\* The store of a photo table whose first session was extracted with a RAW
\* folder of raw files, or with none.
StoreWithRaw(table, raw) ==
  [StoreOf(table) EXCEPT
     ![1].total_raw_photos = raw,
     ![1].hit_rate = IF raw = None THEN None
                     ELSE calculate_hit_rate(StoreOf(table)[1].total_photos, Val(raw))]

\* A key that names no filter dimension, with its value.
UnknownFilter == "color_space" :> Scalar(Some("sRGB"))

DatabaseFilterSpecs ==
  LET known == {<<>>, "camera" :> Scalar(Some("A7")), "category" :> Scalar(Some("A"))}
  IN known \cup {UnknownFilter @@ f : f \in known}

DatabaseScopes ==
  {[category |-> Scalar(None), group |-> Scalar(None), sessions |-> None],
   [category |-> Scalar(Some("A")), group |-> Scalar(None), sessions |-> None],
   [category |-> Scalar(Some("B")), group |-> Scalar(Some("g1")), sessions |-> None],
   [category |-> Scalar(None), group |-> Scalar(Some("g1")), sessions |-> None],
   [category |-> Scalar(Some("C")), group |-> Scalar(None), sessions |-> None],
   [category |-> Scalar(None), group |-> Scalar(None), sessions |-> Some(<<"s1", "s2">>)]}

InitDatabase ==
  /\ photos \in PhotoTables
  /\ sessions \in {StoreWithRaw(photos, raw) : raw \in {None, Some(MaxPhotos)}}
  /\ nextId = 3
  /\ progress_store = <<>>
  /\ pc = <<>>
  /\ request \in {[op |-> "submitted", filters |-> f, category |-> s.category,
                   group |-> s.group, sessions |-> s.sessions] :
                    f \in DatabaseFilterSpecs, s \in DatabaseScopes}
  /\ reply = NoReply

AnalyzeDatabase ==
  /\ UNCHANGED <<progress_store, pc>>
  /\ request' = [request EXCEPT !.op = "analyze_database"]
  /\ reply' = analyze_database(request)
  /\ UNCHANGED <<sessions, photos, nextId>>

NextDatabase == AnalyzeDatabase

SpecDatabase == InitDatabase /\ [][NextDatabase]_vars

(***************************************************************************)
(* SpecCreate: DatabaseManager.create_session on names, categories and     *)
(* groups that differ in case, in surrounding spaces and in content.  A    *)
(* text is a sequence of characters.  The sessions table rejects a row     *)
(* whose LOWER(TRIM(name)), LOWER(TRIM(category)), LOWER(TRIM(group_name)) *)
(* are those of a stored row.                                              *)
(***************************************************************************)
SessionNames == {<<"t", "s">>, <<"T", "S">>, <<" ", "t", "s", " ">>, <<"T", "s">>}
SessionCategories == {<<"c">>, <<"C">>}
SessionGroups == {<<"t", "_", "g">>, <<"t", " ", "g">>, <<"T", "_", "G">>}

\* SQL LOWER(x)
SqlLower(text) ==
  [i \in 1..Len(text) |->
     CASE text[i] = "T" -> "t" [] text[i] = "S" -> "s" [] text[i] = "C" -> "c"
       [] text[i] = "G" -> "g" [] OTHER -> text[i]]

\* SQL TRIM(x): the spaces at both ends removed.
RECURSIVE SqlTrim(_)
SqlTrim(text) ==
  IF text = <<>> THEN text
  ELSE IF Head(text) = " " THEN SqlTrim(Tail(text))
  ELSE IF text[Len(text)] = " " THEN SqlTrim(SubSeq(text, 1, Len(text) - 1))
  ELSE text

\* The key of a row in the unique index of the sessions table.
SessionKey(name, category, group) ==
  <<SqlLower(SqlTrim(name)), SqlLower(SqlTrim(category)), SqlLower(SqlTrim(group))>>

\* A variant whose INSERT is rejected for a row equal to a stored one only.
create_session_ExactMatch(name, category, group) ==
  /\ nextId <= MaxCreated
  /\ request' = [op |-> "create_session", name |-> name, category |-> category,
                 group |-> group]
  /\ IF get_session_by_name(name, category, group) # {}
     THEN /\ reply' = [status |-> "IntegrityError"]
          /\ UNCHANGED <<sessions, photos, nextId>>
     ELSE /\ sessions' = [id \in DOMAIN sessions \cup {nextId} |->
                            IF id = nextId
                            THEN SessionRow(name, Some(category), Some(group), 10, None, None)
                            ELSE sessions[id]]
          /\ nextId' = nextId + 1
          /\ reply' = [status |-> "created", id |-> nextId]
          /\ UNCHANGED photos

\* DatabaseManager.create_session: the INSERT raises when the index holds the
\* key of the row, and the session gets the next id otherwise.
create_session(name, category, group) ==
  /\ nextId <= MaxCreated
  /\ request' = [op |-> "create_session", name |-> name, category |-> category,
                 group |-> group]
  /\ IF \E id \in DOMAIN sessions :
          SessionKey(sessions[id].name, Val(sessions[id].category), Val(sessions[id].group))
            = SessionKey(name, category, group)
     THEN /\ reply' = [status |-> "IntegrityError"]
          /\ UNCHANGED <<sessions, photos, nextId>>
     ELSE /\ sessions' = [id \in DOMAIN sessions \cup {nextId} |->
                            IF id = nextId
                            THEN SessionRow(name, Some(category), Some(group), 10, None, None)
                            ELSE sessions[id]]
          /\ nextId' = nextId + 1
          /\ reply' = [status |-> "created", id |-> nextId]
          /\ UNCHANGED photos

InitCreate ==
  /\ sessions = <<>>
  /\ photos = <<>>
  /\ nextId = 1
  /\ progress_store = <<>>
  /\ pc = <<>>
  /\ request = NoRequest
  /\ reply = NoReply

CreateSession ==
  /\ UNCHANGED <<progress_store, pc>>
  /\ \E name \in SessionNames, category \in SessionCategories, group \in SessionGroups :
       create_session(name, category, group)

NextCreate == CreateSession

SpecCreate == InitCreate /\ [][NextCreate]_vars

(***************************************************************************)
(* SpecProgress: /api/analyze and /api/wrapped requests served by          *)
(* concurrent threads over the one progress_store.  A step of a handler is *)
(* its code up to and including its next write to progress_store, or up to *)
(* its return.  request, reply and pc hold one entry per client.           *)
(***************************************************************************)
MaxClients == 2  \* the requests in flight
Clients == 1..MaxClients

Entry(progress, status) == [progress |-> progress, total |-> 100, status |-> status]

\* data.get('task_id', 'analyze') and data.get('task_id', 'wrapped')
TaskIdOf(req) == IF req.task_id = None THEN req.op ELSE Val(req.task_id)

\* GET /api/progress/<task_id>
get_progress(task_id) ==
  LET progress == IF task_id \in DOMAIN progress_store THEN progress_store[task_id]
                  ELSE [progress |-> 0, total |-> 0, status |-> "unknown"]
  IN [percentage |-> IF progress.total > 0
                     THEN (progress.progress * 100) \div progress.total ELSE 0,
      progress |-> progress.progress,
      total |-> progress.total,
      status |-> progress.status]

\* The bodies of POST /api/analyze: target, type, task_id, and where the
\* request raises: in from_config, in the analyzer (an unknown session, a
\* target that is no integer), or nowhere.
AnalyzeRequests ==
  {[op |-> "analyze", target |-> target, type |-> type, task_id |-> task_id,
    raises |-> raises] :
     target \in BOOLEAN, type \in {"session", "group", "category", "other"},
     task_id \in {None, Some("t1")}, raises \in {"never", "from_config", "analyzer"}}

\* The bodies of POST /api/wrapped: task_id, whether the group has sessions,
\* and where the request raises.
WrappedRequests ==
  {[op |-> "wrapped", found |-> found, task_id |-> task_id, raises |-> raises] :
     found \in BOOLEAN, task_id \in {None, Some("t1")},
     raises \in {"never", "from_config", "query"}}

InitProgress ==
  /\ sessions = <<>>
  /\ photos = <<>>
  /\ nextId = 1
  /\ request \in [Clients -> AnalyzeRequests \cup WrappedRequests]
  /\ reply = [c \in Clients |-> NoReply]
  /\ progress_store = <<>>
  /\ pc = [c \in Clients |-> "received"]

\* progress_store[task_id] = {...}
Write(c, progress, status) ==
  progress_store' = (TaskIdOf(request[c]) :> Entry(progress, status)) @@ progress_store

\* return jsonify(...), code
Return(c, code) ==
  /\ reply' = [reply EXCEPT ![c] = [status |-> code]]
  /\ pc' = [pc EXCEPT ![c] = "returned"]

Goto(c, position) ==
  /\ pc' = [pc EXCEPT ![c] = position]
  /\ UNCHANGED reply

\* except Exception: the entry of the task becomes 'error' when there is one.
Except(c) ==
  /\ IF TaskIdOf(request[c]) \in DOMAIN progress_store
     THEN Write(c, 100, "error")
     ELSE UNCHANGED progress_store
  /\ Return(c, "500")

\* analyze, to the write of 'starting'.
AnalyzeStart(c) ==
  /\ request[c].op = "analyze" /\ pc[c] = "received"
  /\ IF ~request[c].target
     THEN UNCHANGED progress_store /\ Return(c, "400")
     ELSE Write(c, 0, "starting") /\ Goto(c, "starting")
  /\ UNCHANGED <<sessions, photos, nextId, request>>

\* analyze, from_config and the branch on the type.
AnalyzeLoad(c) ==
  /\ request[c].op = "analyze" /\ pc[c] = "starting"
  /\ IF request[c].raises = "from_config" THEN Except(c)
     ELSE IF request[c].type \in {"session", "group", "category"}
     THEN Write(c, 25, "loading " \o request[c].type) /\ Goto(c, "loading")
     ELSE UNCHANGED progress_store /\ Return(c, "400")
  /\ UNCHANGED <<sessions, photos, nextId, request>>

\* analyze, the call of the analyzer.
AnalyzeRun(c) ==
  /\ request[c].op = "analyze" /\ pc[c] = "loading"
  /\ IF request[c].raises = "analyzer" THEN Except(c)
     ELSE Write(c, 75, "analyzing") /\ Goto(c, "analyzing")
  /\ UNCHANGED <<sessions, photos, nextId, request>>

\* analyze, the test of the analysis: an Analysis is truthy, and the analyzers
\* return an Analysis or raise.
AnalyzeFormat(c) ==
  /\ request[c].op = "analyze" /\ pc[c] = "analyzing"
  /\ Write(c, 90, "formatting results") /\ Goto(c, "formatting")
  /\ UNCHANGED <<sessions, photos, nextId, request>>

\* analyze, to_dict and the reply.
AnalyzeComplete(c) ==
  /\ request[c].op = "analyze" /\ pc[c] = "formatting"
  /\ Write(c, 100, "complete") /\ Return(c, "200")
  /\ UNCHANGED <<sessions, photos, nextId, request>>

\* generate_wrapped, to the write of 'starting'.
WrappedStart(c) ==
  /\ request[c].op = "wrapped" /\ pc[c] = "received"
  /\ Write(c, 0, "starting") /\ Goto(c, "starting")
  /\ UNCHANGED <<sessions, photos, nextId, request>>

\* generate_wrapped, from_config.
WrappedLoad(c) ==
  /\ request[c].op = "wrapped" /\ pc[c] = "starting"
  /\ IF request[c].raises = "from_config" THEN Except(c)
     ELSE Write(c, 20, "loading sessions") /\ Goto(c, "loading")
  /\ UNCHANGED <<sessions, photos, nextId, request>>

\* generate_wrapped, the query of the sessions of the group.
WrappedQuery(c) ==
  /\ request[c].op = "wrapped" /\ pc[c] = "loading"
  /\ IF request[c].raises = "query" THEN Except(c)
     ELSE Write(c, 60, "analyzing trends") /\ Goto(c, "analyzing")
  /\ UNCHANGED <<sessions, photos, nextId, request>>

\* generate_wrapped, the test of the sessions found.
WrappedFormat(c) ==
  /\ request[c].op = "wrapped" /\ pc[c] = "analyzing"
  /\ IF ~request[c].found
     THEN Write(c, 100, "complete") /\ Return(c, "200")
     ELSE Write(c, 80, "formatting results") /\ Goto(c, "formatting")
  /\ UNCHANGED <<sessions, photos, nextId, request>>

\* generate_wrapped, the sessions_data and the reply.
WrappedComplete(c) ==
  /\ request[c].op = "wrapped" /\ pc[c] = "formatting"
  /\ Write(c, 100, "complete") /\ Return(c, "200")
  /\ UNCHANGED <<sessions, photos, nextId, request>>

Analyze ==
  \E c \in Clients :
    \/ AnalyzeStart(c)
    \/ AnalyzeLoad(c)
    \/ AnalyzeRun(c)
    \/ AnalyzeFormat(c)
    \/ AnalyzeComplete(c)

GenerateWrapped ==
  \E c \in Clients :
    \/ WrappedStart(c)
    \/ WrappedLoad(c)
    \/ WrappedQuery(c)
    \/ WrappedFormat(c)
    \/ WrappedComplete(c)

NextProgress ==
  \/ Analyze
  \/ GenerateWrapped

SpecProgress == InitProgress /\ [][NextProgress]_vars

(***************************************************************************)
(* Claims on the store and the analyzer (Spec).  In a state whose request  *)
(* is an analysis, the store is the one that analysis read.                *)
(***************************************************************************)
AnalysisOps == {"analyze_sessions", "analyze_group", "analyze_category"}

Aggregated == request.op \in AnalysisOps /\ reply.status = "ok"

\* A session counts in the hit-rate ratio: RAW count non-null, > 0, >= total_photos.
ValidForHitRate(session_id) ==
  LET row == sessions[session_id]
  IN /\ row.total_raw_photos # None
     /\ Val(row.total_raw_photos) > 0
     /\ Val(row.total_raw_photos) >= row.total_photos

PhotosOf(ids) == SumSeq([i \in 1..Len(ids) |-> sessions[ids[i]].total_photos])
RawOf(ids) == SumSeq([i \in 1..Len(ids) |-> Val(sessions[ids[i]].total_raw_photos)])
Existing(ids) == SelectSeq(ids, LAMBDA id : id \in DOMAIN sessions)

\* C1: after analyze_sessions, hit_rate = 100 * (sum of total_photos over the
\* sessions with a valid RAW count) / (sum of total_raw_photos over the same
\* sessions), and None when that denominator is 0.
C1_HitRateOverValidSessions ==
  Aggregated =>
    LET valid == SelectSeq(Existing(request.ids), ValidForHitRate)
    IN IF RawOf(valid) = 0
       THEN reply.analysis.hit_rate = None
       ELSE /\ reply.analysis.hit_rate # None
            /\ FracEq(Val(reply.analysis.hit_rate), <<100 * PhotosOf(valid), RawOf(valid)>>)

\* C2: no analysis of existing sessions raises, and its hit_rate is None or
\* lies between 0 and 100.
C2_HitRateInRange ==
  (request.op \in AnalysisOps \cup {"analyze_session"}
     /\ (request.op = "analyze_session" => request.id \in DOMAIN sessions)) =>
    /\ reply.status = "ok"
    /\ \/ reply.analysis.hit_rate = None
       \/ /\ FracLeq(<<0, 1>>, Val(reply.analysis.hit_rate))
          /\ FracLeq(Val(reply.analysis.hit_rate), <<100, 1>>)

\* C3: after analyze_sessions, total_photos is the sum of the photo counts
\* (total_photos) of all the contributing sessions, those left out of the
\* hit-rate ratio included.
C3_TotalPhotosIsSum ==
  Aggregated =>
    /\ reply.analysis.sessions = Existing(request.ids)
    /\ reply.analysis.total_photos = PhotosOf(Existing(request.ids))

\* C3 witness: an aggregate over two sessions with photos, one of which has no
\* valid RAW count.
C3_Witness ==
  /\ Aggregated
  /\ Len(reply.analysis.sessions) = 2
  /\ reply.analysis.sessions[1] # reply.analysis.sessions[2]
  /\ \A i \in 1..2 : sessions[reply.analysis.sessions[i]].total_photos > 0
  /\ \E i \in 1..2 : ~ValidForHitRate(reply.analysis.sessions[i])
  /\ \E i \in 1..2 : ValidForHitRate(reply.analysis.sessions[i])

\* C10: the total_count that calculate_statistics reports for a session is the
\* number of photos in the session's photo sequence.
C10_TotalCountIsLength ==
  (request.op = "analyze_session" /\ reply.status = "ok") =>
    reply.analysis.total_photos = Len(get_photos_by_session(request.id))

(***************************************************************************)
(* Claims on the filter engine (SpecFilter).                               *)
(***************************************************************************)
\* The values a FilterSpec accepts for a key.
AcceptedValues(value) ==
  IF value.list THEN SeqToSet(value.items) ELSE {value.items[1]}

\* The photo attribute a key constrains.
Attribute(photo, key) ==
  CASE key = "camera" -> photo.camera
    [] key = "lens" -> photo.lens
    [] key = "aperture" -> photo.aperture
    [] key = "shutter_speed" -> photo.shutter_speed
    [] key = "iso" -> photo.iso
    [] key = "focal_length" -> photo.focal_length
    [] key = "time_of_day" -> photo.time_of_day
    [] key = "lens_type" -> photo.lens
    [] key = "category" -> sessions[photo.session_id].category
    [] key = "group" -> sessions[photo.session_id].group

\* The photo matches one accepted value of a key.
Matches(photo, key, a) ==
  /\ a # None
  /\ Attribute(photo, key) # None
  /\ CASE key = "aperture" -> str(PyFloat(Val(photo.aperture))) = str(Val(a))
       [] key = "iso" -> str(PyInt(Val(photo.iso))) = str(Val(a))
       [] key = "focal_length" ->
            ~FloatRaises(Val(a)) /\ Abs(Val(photo.focal_length) - float(Val(a))) < 10
       [] key = "lens_type" -> (a = Some("zoom")) = HasHyphen(Val(photo.lens))
       [] OTHER -> Attribute(photo, key) = a

\* The photo satisfies every key of the FilterSpec.
SatisfiesAll(photo, filters) ==
  \A key \in DOMAIN filters :
    \E a \in AcceptedValues(filters[key]) : Matches(photo, key, a)

\* The photos a request selects before its FilterSpec applies.
ScopePopulation ==
  SelectSeq(photos, LAMBDA p :
    IF request.sessions # None /\ Len(Val(request.sessions)) > 0
    THEN sessions[p.session_id].name \in SeqToSet(Val(request.sessions))
    ELSE /\ _as_list(request.category) # <<>> =>
              sessions[p.session_id].category \in SeqToSet(_as_list(request.category))
         /\ _as_list(request.group) # <<>> =>
              sessions[p.session_id].group \in SeqToSet(_as_list(request.group)))

\* C4: the filtered result is exactly the photos of the population that
\* satisfy every key of the FilterSpec (AND across keys, the category and group
\* of the owning session included; OR among the accepted values of a key), in
\* the order of the population.
C4_FilterIsConjunction ==
  (reply.status = "ok" /\ reply.op = "run_analysis") =>
    reply.filtered_photos =
      SelectSeq(ScopePopulation, LAMBDA p : SatisfiesAll(p, request.filters))

\* C5: a photo whose attribute is null never passes a FilterSpec that has a
\* filter on that attribute, whatever the accepted values of the filter.
C5_NullNeverPasses ==
  (reply.status = "ok" /\ reply.op = "filter") =>
    \A key \in DOMAIN PhotoFilters(request.filters) :
      \A i \in 1..Len(reply.out) : Attribute(reply.out[i], key) # None

\* C6: filtering the result of a filter with the same FilterSpec returns the
\* same photos in the same order.
C6_FilterIdempotent ==
  (reply.status = "ok" /\ reply.op = "again") => reply.again = reply.out

\* A FilterSpec that kept some photos and rejected others was applied twice.
C6_Witness ==
  /\ reply.status = "ok" /\ reply.op = "again"
  /\ DOMAIN request.filters # {}
  /\ reply.out # <<>>
  /\ Len(reply.out) < Len(photos)

\* C7: for two FilterSpecs on disjoint keys, filtering by their union equals
\* filtering by one and then the other, in either order.
C7_FilterComposable ==
  (reply.status = "ok" /\ reply.op = "split") =>
    /\ reply.united = reply.ab
    /\ reply.united = reply.ba

\* Both parts of a split FilterSpec rejected a photo the other part kept.
C7_Witness ==
  /\ reply.status = "ok" /\ reply.op = "split"
  /\ reply.keys # {} /\ reply.keys # DOMAIN request.filters
  /\ reply.united # _filter_photos(photos, Restrict(request.filters, reply.keys))
  /\ reply.united #
       _filter_photos(photos, Restrict(request.filters, DOMAIN request.filters \ reply.keys))
  /\ reply.united # <<>>

(***************************************************************************)
(* Claims on aggregation (SpecStats).                                      *)
(***************************************************************************)
\* What two analyses are compared on.
Totals(analysis) ==
  [total_photos |-> analysis.total_photos,
   lens_freq |-> analysis.lens_freq, camera_freq |-> analysis.camera_freq,
   shutter_speed_freq |-> analysis.shutter_speed_freq,
   aperture_freq |-> analysis.aperture_freq, iso_freq |-> analysis.iso_freq,
   exposure_program_freq |-> analysis.exposure_program_freq,
   flash_mode_freq |-> analysis.flash_mode_freq,
   focal_length_freq |-> analysis.focal_length_freq,
   exposure_bias_freq |-> analysis.exposure_bias_freq,
   lens_breakdowns |-> analysis.lens_breakdowns,
   prime_count |-> analysis.prime_count, zoom_count |-> analysis.zoom_count]

\* C8: the statistics of the parts of a partition of a photo population, added
\* to an empty Analysis in any order, give the same total_photos, frequency
\* counters, lens breakdowns and prime/zoom counts as the statistics of the
\* first two parts taken together followed by the third.
C8_AggregationPartitionIndependent ==
  (reply.status = "ok" /\ reply.op = "aggregate") =>
    Totals(reply.separate) = Totals(reply.merged)

\* Three non-empty parts, two of them with a lens in common, were added in
\* another order than the order of the partition.
C8_Witness ==
  /\ reply.status = "ok" /\ reply.op = "aggregate"
  /\ \A g \in 1..MaxParts : g <= 3 => request.groups[g] # <<>>
  /\ request.order[1] # 1
  /\ \E i, j \in 1..MaxParts :
       /\ i # j
       /\ DOMAIN reply.parts[i].lens_breakdowns \cap DOMAIN reply.parts[j].lens_breakdowns # {}

SubCounters == {"ShutterSpeed", "Aperture", "ISO", "ExposureProgram", "FlashMode", "FocalLength"}

\* The parts whose statistics contain the lens.
PartsWith(lens_name) ==
  SelectSeq(reply.parts, LAMBDA part : lens_name \in DOMAIN part.lens_breakdowns)

\* C9: after adding the parts, the lens breakdowns hold the lenses of all the
\* parts, and for every lens the Count and every value of each sub-counter
\* is the sum of that quantity over the parts that contain the lens.
C9_LensBreakdownsUnionSum ==
  (reply.status = "ok" /\ reply.op = "aggregate") =>
    LET merged == reply.separate.lens_breakdowns
    IN /\ DOMAIN merged =
            UNION {DOMAIN reply.parts[i].lens_breakdowns : i \in 1..Len(reply.parts)}
       /\ \A l \in DOMAIN merged :
            LET with == PartsWith(l)
            IN /\ merged[l].Count = SumSeq([i \in 1..Len(with) |-> with[i].lens_breakdowns[l].Count])
               /\ \A c \in SubCounters :
                    /\ BagToSet(merged[l][c]) =
                         UNION {BagToSet(with[i].lens_breakdowns[l][c]) : i \in 1..Len(with)}
                    /\ \A v \in BagToSet(merged[l][c]) :
                         CopiesIn(v, merged[l][c]) =
                           SumSeq([i \in 1..Len(with) |->
                                     CopiesIn(v, with[i].lens_breakdowns[l][c])])

\* A lens is in two parts, with a sub-counter value in one of them only.
C9_Witness ==
  /\ reply.status = "ok" /\ reply.op = "aggregate"
  /\ \E l \in DOMAIN reply.separate.lens_breakdowns :
       /\ Len(PartsWith(l)) >= 2
       /\ \E c \in SubCounters :
            BagToSet(PartsWith(l)[1].lens_breakdowns[l][c]) #
              BagToSet(PartsWith(l)[2].lens_breakdowns[l][c])

(***************************************************************************)
(* Claims on the frequency counters (SpecStats).                           *)
(***************************************************************************)
CountedFields ==
  {"lens", "camera", "shutter_speed", "aperture", "iso", "exposure_program",
   "flash_mode", "focal_length", "exposure_bias"}

\* The counter of a statistics result or of an Analysis for a counted field.
Freq(stats, field) ==
  CASE field = "lens" -> stats.lens_freq
    [] field = "camera" -> stats.camera_freq
    [] field = "shutter_speed" -> stats.shutter_speed_freq
    [] field = "aperture" -> stats.aperture_freq
    [] field = "iso" -> stats.iso_freq
    [] field = "exposure_program" -> stats.exposure_program_freq
    [] field = "flash_mode" -> stats.flash_mode_freq
    [] field = "focal_length" -> stats.focal_length_freq
    [] field = "exposure_bias" -> stats.exposure_bias_freq

\* The field of the photo is neither null nor empty.
Present(photo, field) ==
  /\ photo[field] # None
  /\ field \in {"camera", "shutter_speed", "exposure_program", "flash_mode"} =>
       Val(photo[field]) # ""
  /\ field = "lens" => Val(photo[field]) # <<>>

\* C11: in an Analysis built by add_session_stats, the values of each
\* frequency counter sum to at most total_photos, and to total_photos when the
\* attribute is present on every contributing photo.
C11_CounterSumsBounded ==
  (reply.status = "ok" /\ reply.op = "aggregate") =>
    \A field \in CountedFields :
      /\ BagCardinality(Freq(reply.separate, field)) <= reply.separate.total_photos
      /\ (\A i \in 1..Len(photos) : Present(photos[i], field)) =>
           BagCardinality(Freq(reply.separate, field)) = reply.separate.total_photos

\* The photos of the part whose statistics are reply.parts[i].
GroupOfPart(i) == request.groups[request.order[i]]

\* C12: calculate_statistics counts every photo once at its value in the
\* counter of each field that is neither null nor empty, whatever the value,
\* and counts nothing else.
C12_CountsPresentValues ==
  (reply.status = "ok" /\ reply.op = "aggregate") =>
    \A i \in 1..Len(reply.parts), field \in CountedFields :
      LET group == GroupOfPart(i)
          present == SelectSeq(group, LAMBDA p : Present(p, field))
          values == {Val(present[k][field]) : k \in 1..Len(present)}
          counter == Freq(reply.parts[i], field)
      IN /\ BagToSet(counter) = values
         /\ \A v \in values :
              CopiesIn(v, counter) =
                Len(SelectSeq(present, LAMBDA p : Val(p[field]) = v))

\* The lens name holds "mm".
HasMm(name) == \E i \in 1..(Len(name) - 1) : name[i] = "m" /\ name[i + 1] = "m"

\* The photos of a list whose non-null lens name classifies as the given type.
CountOfType(list, type) ==
  Len(SelectSeq(list, LAMBDA p : p.lens # None /\ classify_type(Val(p.lens)) = type))

\* C13: every part counts each photo with a lens under prime_count or under
\* zoom_count as its lens name classifies, and under neither when it
\* classifies as unknown; prime_count + zoom_count is at most total_photos in
\* every part and in the Analysis, and less when a photo has a lens name
\* without an mm pattern.
C13_PrimeZoomBounded ==
  (reply.status = "ok" /\ reply.op = "aggregate") =>
    /\ \A i \in 1..Len(reply.parts) :
         /\ reply.parts[i].prime_count = CountOfType(GroupOfPart(i), "prime")
         /\ reply.parts[i].zoom_count = CountOfType(GroupOfPart(i), "zoom")
         /\ reply.parts[i].prime_count + reply.parts[i].zoom_count
              <= reply.parts[i].total_count
    /\ reply.separate.prime_count + reply.separate.zoom_count <= reply.separate.total_photos
    /\ (\E k \in 1..Len(photos) : photos[k].lens # None /\ ~HasMm(Val(photos[k].lens))) =>
         reply.separate.prime_count + reply.separate.zoom_count
           < reply.separate.total_photos

\* Prime, zoom and unclassified lenses were counted together.
C13_Witness ==
  /\ reply.status = "ok" /\ reply.op = "aggregate"
  /\ reply.separate.prime_count > 0
  /\ reply.separate.zoom_count > 0
  /\ \E k \in 1..Len(photos) : photos[k].lens # None /\ ~HasMm(Val(photos[k].lens))

StoreCategories == {CategoryKey(sessions[id]) : id \in DOMAIN sessions}
StoreGroups == {GroupKey(sessions[id]) : id \in DOMAIN sessions}

\* The main analysis and the facets of a reply.
Rollups == {reply.main} \cup {reply.facets[d] : d \in DOMAIN reply.facets}

\* C15 as stated: under a filter on category, the category facet lists every
\* category of the store and shows zero sessions and photos for the
\* categories the filter does not accept.
C15_CategoryFacetZeroOutsideFilter ==
  (reply.status = "ok" /\ reply.op = "run_analysis" /\ "category" \in DOMAIN request.filters) =>
    /\ StoreCategories \subseteq DOMAIN reply.facets["category"].categories
    /\ \A k \in StoreCategories :
         Some(k) \notin AcceptedValues(request.filters["category"]) =>
           /\ reply.facets["category"].categories[k].sessions = 0
           /\ reply.facets["category"].categories[k].photos = 0

\* C15 (amended): every category and group of the store is a key of the rollups
\* of the main analysis and of every facet, and a key without a filtered photo
\* shows zero sessions and photos; the category facet, which leaves the
\* category filter out, counts the categories the filter does not accept.
C15_RollupKeepsEveryKey ==
  (reply.status = "ok" /\ reply.op = "run_analysis") =>
    \A r \in Rollups :
      /\ StoreCategories \subseteq DOMAIN r.categories
      /\ StoreGroups \subseteq DOMAIN r.groups
      /\ \A k \in StoreCategories :
           (\A i \in 1..Len(r.filtered_photos) : PhotoCategory(r.filtered_photos[i]) # k) =>
             r.categories[k].sessions = 0 /\ r.categories[k].photos = 0
      /\ \A k \in StoreGroups :
           (\A i \in 1..Len(r.filtered_photos) : PhotoGroup(r.filtered_photos[i]) # k) =>
             r.groups[k].sessions = 0 /\ r.groups[k].photos = 0

\* Under category = A the main rollup shows B with zero counts and the category
\* facet counts the photos of B.
C15_Witness ==
  /\ reply.status = "ok" /\ reply.op = "run_analysis"
  /\ "category" \in DOMAIN request.filters
  /\ request.filters["category"] = Scalar(Some("A"))
  /\ "B" \in DOMAIN reply.main.categories
  /\ reply.main.categories["B"].photos = 0
  /\ reply.main.categories["B"].sessions = 0
  /\ reply.facets["category"].categories["B"].photos > 0

\* C25: a FilterSpec of the one key lens_type = zoom (prime) keeps exactly the
\* photos whose lens name classify_type reports as zoom (prime), and the
\* Analysis of the result counts no prime (zoom) photo.
C25_LensTypeFilterIsClassification ==
  (/\ reply.status = "ok" /\ reply.op = "run_analysis"
   /\ DOMAIN request.filters = {"lens_type"}) =>
    LET wanted == Val(request.filters["lens_type"].items[1])
    IN /\ reply.filtered_photos =
            SelectSeq(ScopePopulation, LAMBDA p :
              p.lens # None /\ classify_type(Val(p.lens)) = wanted)
       /\ wanted = "zoom" => reply.analysis.prime_count = 0
       /\ wanted = "prime" => reply.analysis.zoom_count = 0

\* C27: in a reply to a request with a non-empty FilterSpec, the analysis of
\* every facet has at least as many photos as the main analysis.
C27_FacetNotBelowMain ==
  (reply.status = "ok" /\ reply.op = "run_analysis" /\ DOMAIN request.filters # {}) =>
    \A d \in DOMAIN reply.facets :
      reply.facets[d].analysis.total_photos >= reply.main.analysis.total_photos

(***************************************************************************)
(* Claims on empty scopes and on the session store (Spec).                 *)
(***************************************************************************)
\* C16: an analysis whose scope holds no session of the store is not answered
\* with an Analysis as a successful result.
C16_EmptyScopeNotFound ==
  (request.op \in AnalysisOps /\ Existing(request.ids) = <<>>) => reply.status # "ok"

\* C19: every stored session whose total_raw_photos is non-null and > 0 has
\* total_photos <= total_raw_photos.
C19_PhotosWithinRaw ==
  \A id \in DOMAIN sessions :
    (sessions[id].total_raw_photos # None /\ Val(sessions[id].total_raw_photos) > 0)
      => sessions[id].total_photos <= Val(sessions[id].total_raw_photos)

(***************************************************************************)
(* Claims on the numeric-like filter keys (SpecFilter).  Focal lengths are *)
(* hundredths of a millimetre; no difference in the inputs is exactly 0.1, *)
(* where the binary comparison and the decimal one part.                   *)
(***************************************************************************)
\* The accepted values of a focal_length filter that are numbers.
FocalNumbers(value) ==
  {float(Val(a)) : a \in {b \in AcceptedValues(value) : b # None /\ ~FloatRaises(Val(b))}}

\* The string forms of the accepted values of a filter.
StringForms(value) == {str(Val(a)) : a \in {b \in AcceptedValues(value) : b # None}}

\* C17: a FilterSpec of one focal_length key with a numeric value keeps exactly
\* the photos whose focal_length is non-null and within 0.1 of an accepted
\* value; one of an aperture or iso key keeps exactly the photos whose
\* non-null value has the string form of an accepted value.
C17_FocalWithinTenth ==
  (reply.status = "ok" /\ reply.op = "filter") =>
    /\ (DOMAIN request.filters = {"focal_length"}
        /\ FocalNumbers(request.filters["focal_length"]) # {}) =>
         reply.out = SelectSeq(photos, LAMBDA p :
           /\ p.focal_length # None
           /\ \E v \in FocalNumbers(request.filters["focal_length"]) :
                Abs(Val(p.focal_length) - v) < 10)
    /\ DOMAIN request.filters = {"aperture"} =>
         reply.out = SelectSeq(photos, LAMBDA p :
           /\ p.aperture # None
           /\ str(PyFloat(Val(p.aperture))) \in StringForms(request.filters["aperture"]))
    /\ DOMAIN request.filters = {"iso"} =>
         reply.out = SelectSeq(photos, LAMBDA p :
           /\ p.iso # None
           /\ str(PyInt(Val(p.iso))) \in StringForms(request.filters["iso"]))

(***************************************************************************)
(* Claims on /api/analyze/database (SpecDatabase).                         *)
(***************************************************************************)
\* The request without the key that names no filter dimension.
WithoutUnknown(req) ==
  [req EXCEPT !.filters = [k \in DOMAIN req.filters \ DOMAIN UnknownFilter |-> req.filters[k]]]

\* The statistics of an Analysis the claim names.
Statistics(analysis) ==
  <<analysis.total_photos, analysis.hit_rate, analysis.lens_freq, analysis.camera_freq,
    analysis.shutter_speed_freq, analysis.aperture_freq, analysis.iso_freq,
    analysis.exposure_program_freq, analysis.flash_mode_freq,
    analysis.focal_length_freq, analysis.exposure_bias_freq, analysis.time_of_day_freq>>

\* What the caller gets: the statistics, or the failure.
AnswerOf(r) == IF r.status = "ok" THEN <<"ok", Statistics(r.analysis)>> ELSE <<r.status>>

\* C18: a request with a key that names no filter dimension filters the same
\* photos and is answered as the same request without the key (total_photos,
\* frequency tables, hit_rate).
C18_UnknownKeyIgnored ==
  (request.op = "analyze_database" /\ DOMAIN UnknownFilter \subseteq DOMAIN request.filters) =>
    /\ _filter_photos(photos, PhotoFilters(request.filters))
         = _filter_photos(photos, PhotoFilters(WithoutUnknown(request).filters))
    /\ AnswerOf(reply) = AnswerOf(analyze_database(WithoutUnknown(request)))

(***************************************************************************)
(* Claims on create_session (SpecCreate).                                  *)
(***************************************************************************)
\* text.strip(' '): the part between the first and the last character that
\* is no space.
Stripped(text) ==
  LET solid == {i \in 1..Len(text) : text[i] # " "}
  IN IF solid = {} THEN <<>>
     ELSE SubSeq(text, CHOOSE i \in solid : \A j \in solid : i <= j,
                       CHOOSE i \in solid : \A j \in solid : i >= j)

Capitals == [T |-> "t", S |-> "s", C |-> "c", G |-> "g"]

\* The text with its letters in lower case.
Folded(text) ==
  [i \in 1..Len(text) |-> IF text[i] \in DOMAIN Capitals THEN Capitals[text[i]] ELSE text[i]]

\* (name, category, group), trimmed and with letter case ignored.
Identity(name, category, group) ==
  <<Folded(Stripped(name)), Folded(Stripped(category)), Folded(Stripped(group))>>

IdentityOfRow(row) == Identity(row.name, Val(row.category), Val(row.group))

ExtractsEmptyFolder == request'.op = "extract_folder" /\ request'.files = 0

\* C21 as stated: extract_folder of a folder without image files returns None
\* and leaves the sessions and the photos as they are.
C21_EmptyFolderReturnsNone ==
  [][ExtractsEmptyFolder =>
       (reply'.status = "None" /\ sessions' = sessions /\ photos' = photos)]_vars

\* C21: extract_folder of a folder without image files leaves the sessions and
\* the photos as they are; it returns None, or the stored session when one of
\* the same name, category and group exists.
C21_EmptyFolderCreatesNothing ==
  [][ExtractsEmptyFolder =>
       /\ sessions' = sessions /\ photos' = photos /\ nextId' = nextId
       /\ reply'.status =
            IF \E id \in DOMAIN sessions :
                 /\ sessions[id].name = request'.name
                 /\ sessions[id].category = Some(request'.category)
                 /\ sessions[id].group = Some(request'.group)
            THEN "existing" ELSE "None"]_vars

\* A folder without image files was extracted into a store that holds a
\* session, under an identity no session has.
C21_Witness ==
  /\ request.op = "extract_folder" /\ request.files = 0
  /\ reply.status = "None"
  /\ DOMAIN sessions # {}

\* C24: every stored session row has hit_rate = total_photos /
\* total_raw_photos * 100 when its total_raw_photos is > 0, and a null hit_rate
\* otherwise.
C24_StoredHitRateIsRatio ==
  \A id \in DOMAIN sessions :
    IF sessions[id].total_raw_photos # None /\ Val(sessions[id].total_raw_photos) > 0
    THEN /\ sessions[id].hit_rate # None
         /\ FracEq(Val(sessions[id].hit_rate),
                   <<100 * sessions[id].total_photos, Val(sessions[id].total_raw_photos)>>)
    ELSE sessions[id].hit_rate = None

(***************************************************************************)
(* Claims on the category and group rollups (SpecRollup).                  *)
(***************************************************************************)
\* The category and the group a session is counted under.
CategoryLabel(id) ==
  IF sessions[id].category \in {None, Some("")} THEN "Uncategorized"
  ELSE Val(sessions[id].category)

GroupLabel(id) ==
  IF sessions[id].group \in {None, Some("")} THEN "Ungrouped" ELSE Val(sessions[id].group)

\* The positions of the photos of a list owned by a session of a category (group).
InCategory(list, k) == {i \in 1..Len(list) : CategoryLabel(list[i].session_id) = k}
InGroup(list, k) == {i \in 1..Len(list) : GroupLabel(list[i].session_id) = k}

\* The photos counts of a rollup summed over its keys.
PhotosSummed(entries) ==
  LET RECURSIVE Sum(_)
      Sum(K) == IF K = {} THEN 0
                ELSE LET k == CHOOSE x \in K : TRUE IN entries[k].photos + Sum(K \ {k})
  IN Sum(DOMAIN entries)

\* C22: in the rollups of the main analysis and of every facet, each category
\* (group) shows the number of filtered photos owned by a session of it and the
\* number of distinct sessions owning them, zero for both where there is none,
\* and the photos counts sum to the number of filtered photos.
C22_OverlayCountsFilteredPhotos ==
  (reply.status = "ok" /\ reply.op = "run_analysis") =>
    \A r \in Rollups :
      /\ \A k \in DOMAIN r.categories :
           /\ r.categories[k].photos = Cardinality(InCategory(r.filtered_photos, k))
           /\ r.categories[k].sessions =
                Cardinality({r.filtered_photos[i].session_id :
                               i \in InCategory(r.filtered_photos, k)})
      /\ \A k \in DOMAIN r.groups :
           /\ r.groups[k].photos = Cardinality(InGroup(r.filtered_photos, k))
           /\ r.groups[k].sessions =
                Cardinality({r.filtered_photos[i].session_id :
                               i \in InGroup(r.filtered_photos, k)})
      /\ PhotosSummed(r.categories) = Len(r.filtered_photos)
      /\ PhotosSummed(r.groups) = Len(r.filtered_photos)

\* Under category = A the two photos of one session count under A as two
\* photos and one session and 'Uncategorized' shows zero; the category facet
\* counts the photo of the session without a category under 'Uncategorized'.
C22_Witness ==
  /\ reply.status = "ok" /\ reply.op = "run_analysis"
  /\ "category" \in DOMAIN request.filters
  /\ Len(reply.filtered_photos) < Len(photos)
  /\ reply.main.categories["A"].photos = 2
  /\ reply.main.categories["A"].sessions = 1
  /\ "Uncategorized" \in DOMAIN reply.main.categories
  /\ reply.main.categories["Uncategorized"].photos = 0
  /\ reply.facets["category"].categories["Uncategorized"].photos = 1

\* The sessions under a category (group) label.
SessionsLabelled(k) == {id \in DOMAIN sessions : CategoryLabel(id) = k}
SessionsGrouped(k) == {id \in DOMAIN sessions : GroupLabel(id) = k}

\* A session counts in the hit rate of its key.
CountsForHitRate(id) ==
  /\ sessions[id].total_raw_photos # None
  /\ Val(sessions[id].total_raw_photos) > 0
  /\ 0 <= sessions[id].total_photos
  /\ sessions[id].total_photos <= Val(sessions[id].total_raw_photos)

\* total_photos and total_raw_photos summed over a set of sessions.
RECURSIVE SumPhotos(_)
SumPhotos(S) ==
  IF S = {} THEN 0
  ELSE LET id == CHOOSE x \in S : TRUE IN sessions[id].total_photos + SumPhotos(S \ {id})

RECURSIVE SumRaw(_)
SumRaw(S) ==
  IF S = {} THEN 0
  ELSE LET id == CHOOSE x \in S : TRUE
       IN Val(sessions[id].total_raw_photos) + SumRaw(S \ {id})

\* The entry of a key of the baseline rollup is the one of the sessions S.
BaselineOf(entry, S) ==
  LET counted == {id \in S : CountsForHitRate(id)}
  IN /\ entry.sessions = Cardinality(S)
     /\ entry.photos = SumPhotos(S)
     /\ entry.hit_rate_photos = SumPhotos(counted)
     /\ entry.raw_photos = SumRaw(counted)
     /\ IF counted = {} THEN entry.hit_rate = None
        ELSE /\ entry.hit_rate # None
             /\ FracEq(Val(entry.hit_rate), <<100 * SumPhotos(counted), SumRaw(counted)>>)

\* C23: the baseline rollup has one key per category (group) label of the
\* store; the sessions and photos of a key count all its sessions, and its
\* hit_rate is 100 * photos / RAW photos over its sessions with a RAW count
\* > 0 and 0 <= total_photos <= total_raw_photos, null when there is none.
\* The hit_rate reaches the caller unchanged in the rollup of the reply.
C23_BaselineHitRateOverValidSessions ==
  (reply.status = "ok" /\ reply.op = "run_analysis") =>
    LET base == _build_baseline_category_group_metadata
    IN /\ DOMAIN base.categories = {CategoryLabel(id) : id \in DOMAIN sessions}
       /\ DOMAIN base.groups = {GroupLabel(id) : id \in DOMAIN sessions}
       /\ \A k \in DOMAIN base.categories :
            /\ BaselineOf(base.categories[k], SessionsLabelled(k))
            /\ reply.main.categories[k].hit_rate = base.categories[k].hit_rate
       /\ \A k \in DOMAIN base.groups :
            /\ BaselineOf(base.groups[k], SessionsGrouped(k))
            /\ reply.main.groups[k].hit_rate = base.groups[k].hit_rate

\* Category A holds a session with more photos than RAW files and one that
\* counts: its hit rate is over the second alone; the group of the second is
\* null.
C23_Witness ==
  /\ reply.status = "ok" /\ reply.op = "run_analysis"
  /\ Cardinality(SessionsLabelled("A")) = 2
  /\ \E id \in SessionsLabelled("A") :
       sessions[id].total_raw_photos # None /\ ~CountsForHitRate(id)
  /\ \E id \in SessionsLabelled("A") : CountsForHitRate(id) /\ sessions[id].total_photos > 0
  /\ reply.main.categories["A"].hit_rate # None
  /\ "Ungrouped" \in DOMAIN reply.main.groups


\* C26: in every rollup of a reply, group_to_category maps the group label of
\* each stored session to the category label of that session, and the category
\* recorded on the entry of the group is that category too.
C26_GroupToCategoryMatchesSessions ==
  (reply.status = "ok" /\ reply.op = "run_analysis") =>
    \A r \in Rollups : \A id \in DOMAIN sessions :
      /\ GroupLabel(id) \in DOMAIN r.group_to_category
      /\ r.group_to_category[GroupLabel(id)] = CategoryLabel(id)
      /\ GroupLabel(id) \in DOMAIN r.groups
      /\ r.groups[GroupLabel(id)].category = CategoryLabel(id)


(***************************************************************************)
(* Claims on the lens breakdowns and the lens counter (SpecStats).         *)
(***************************************************************************)
\* The statistics of the parts and the Analyses built from them.
LensResults == SeqToSet(reply.parts) \cup {reply.separate, reply.merged}

\* C30: in the statistics of every part and in every Analysis built by
\* add_session_stats, the lenses of lens_breakdowns are the lenses of
\* lens_freq, the Count of a lens is its count in lens_freq, and the values of
\* each sub-counter of a lens sum to at most that Count.
C30_LensBreakdownsMatchLensFreq ==
  (reply.status = "ok" /\ reply.op = "aggregate") =>
    \A r \in LensResults :
      /\ DOMAIN r.lens_breakdowns = BagToSet(r.lens_freq)
      /\ \A l \in DOMAIN r.lens_breakdowns :
           /\ r.lens_breakdowns[l].Count = CopiesIn(l, r.lens_freq)
           /\ \A c \in SubCounters :
                BagCardinality(r.lens_breakdowns[l][c]) <= r.lens_breakdowns[l].Count

\* A lens counted in two parts, and a lens with a sub-counter below its Count.
C30_Witness ==
  /\ reply.status = "ok" /\ reply.op = "aggregate"
  /\ \E l \in DOMAIN reply.separate.lens_breakdowns :
       /\ Len(PartsWith(l)) >= 2
       /\ reply.separate.lens_breakdowns[l].Count >= 2
  /\ \E l \in DOMAIN reply.separate.lens_breakdowns, c \in SubCounters :
       BagCardinality(reply.separate.lens_breakdowns[l][c]) <
         reply.separate.lens_breakdowns[l].Count

(***************************************************************************)
(* Claims on the progress entries (SpecProgress).                          *)
(***************************************************************************)
\* The positions of a handler after its first write to progress_store.
Written == {"starting", "loading", "analyzing", "formatting"}

Terminal(entry) ==
  entry.progress = 100 /\ entry.status \in {"complete", "failed", "error"}

\* C28: an /api/analyze request that has written a progress entry for its
\* task id returns only with that entry at progress 100 and a terminal
\* status.
C28_AnalyzeReturnsWithTerminalEntry ==
  [][\A c \in Clients :
       (request[c].op = "analyze" /\ pc[c] \in Written /\ pc'[c] = "returned") =>
         Terminal(progress_store'[TaskIdOf(request[c])])]_vars

\* C29: from the first write of a request to its return, no step of any
\* request lowers the percentage reported for the task id of the request,
\* and the percentage is within 0..100.
C29_PercentageNeverDecreases ==
  [][\A c \in Clients :
       pc[c] \in Written =>
         /\ get_progress(TaskIdOf(request[c])).percentage' >=
              get_progress(TaskIdOf(request[c])).percentage
         /\ get_progress(TaskIdOf(request[c])).percentage' \in 0..100]_vars

====
